---- MODULE Spec2Model ----
(***************************************************************************)
(* Job orchestration core of devrayat000/video-processing.                 *)
(*                                                                         *)
(* The model covers the Redis-stream job queue client                      *)
(* (server/pubsub/redis.go), the worker loop that drives it                *)
(* (ConsumeJobs, processPendingMessages, processMessage), the per-job      *)
(* processing pipeline of the worker (processVideoStreaming and the        *)
(* functions it calls) and the producer endpoint that creates the asset    *)
(* row and appends the queue entry.                                        *)
(*                                                                         *)
(* Stream entry ids are modelled by their position in the stream (1, 2,    *)
(* ...).  A payload is the job id it decodes to, or Malformed when its     *)
(* "data" field does not decode.  Every worker process is a consumer of    *)
(* the one consumer group, named after its host.                           *)
(***************************************************************************)
EXTENDS Integers, Sequences, FiniteSets, TLC

\* ---------------------------------------------------------------- bounds
NumWorkers == 2
MaxJobs == 1
MaxMalformed == 1
MaxStarts == 2
MaxFaults == 1
MaxInvoked == 2
MaxHeight == 2200
MaxProgressJobs == 2
NumPublishers == 2
NumConns == 2
MaxPublishes == 2
\* The most entries pending in the group when a recovery pass is checked alone.
MaxPending == 102
\* The most progress blocks ffmpeg writes to its stdout in a batch run.
MaxLines == 2
\* The longest ladder the percent of progress is computed for.
MaxTotal == 100
\* The highest custom height a bandwidth is estimated for.
MaxCustom == 250
\* How many times InitRedis is called, by the API server and the workers.
MaxInits == 3

\* ------------------------------------------------------ program constants
PendingCount == 100
ReadCount == 1
SetupPercent == 5
LadderPercent == 90
DonePercent == 100
\* The lines of one -progress block of ffmpeg that the regexp frames=(\d+)
\* matches: dup_frames=.. and drop_frames=..
LinesPerBlock == 2

Workers == 1..NumWorkers
Jobs == 1..MaxJobs
Malformed == 0
MaxEntries == MaxJobs + MaxMalformed
EntryIds == 1..MaxEntries

\* ------------------------------------------------------------ statuses
StatusWaiting == "waiting"
StatusProcessing == "processing"
StatusCompleted == "completed"
StatusFailed == "failed"
\* A status that ends a run.
Terminal(status) == status \in {StatusCompleted, StatusFailed}
NoRow == "norow"
NoError == "nil"

VARIABLES
    queue,      \* the stream video:jobs with the group video-workers
    videos,     \* the videos table, by job id
    rows,       \* the video_resolutions table: rows per job and label
    snapshot,   \* progress:<job id>, the latest published event
    pc,         \* each worker's position in ConsumeJobs / the handler
    phase,      \* each worker's phase: RECOVERING or CONSUMING
    cancelled,  \* each worker's ctx: TRUE once the signal cancelled it
    plist,      \* each worker's XPendingExt result not yet iterated
    cur,        \* the id of the message a worker is processing (0: none)
    idx,        \* the rendition index of the handler's loop
    hres,       \* what the handler returned: "ok", "err"; "" while it runs, "late"
                \* while it runs on a ctx whose two hours have passed
    starts,     \* how many times each worker process was started
    faults,     \* how many failures, signals and crashes happened so far
    dupAck,     \* history: an XAck reached Redis for an id not pending
    terminalSeen, \* history: a completed or failed event was published for the job
    invoked,    \* history: how often the handler was invoked for an entry
    manifest,   \* per job: the heights listed by the uploaded master.m3u8, in order
    source,     \* per job: the height of the source file, as ffprobe reports it
    batch,      \* the run of the batch worker's handler and its stdout goroutine
    posting,    \* the jobs whose POST /jobs has created the row and not yet enqueued
    fn,         \* the call under check of a pure function: its input and result
    calls,      \* each publisher's PublishProgress call in flight
    sentOn,     \* per job: the last event sent on video:progress:<id>, numbered
    allCount,   \* how many events were sent on video:progress:all
    conns       \* the SSE connections of the API server

\* The progress channels and the connections observing them.
pvars == <<calls, sentOn, allCount, conns>>

\* What the handler leaves alone besides the queue and the process.
haux == <<fn, source, batch, posting>>

\* What the worker processes leave alone outside the handler.
aux == <<haux, pvars>>

\* The state of the queue, the tables and the workers.
qvars == <<queue, videos, rows, pc, phase, cancelled, plist, cur, idx, hres,
           starts, faults, dupAck, terminalSeen, invoked, manifest, source, batch, posting>>

\* The same with the snapshots the workers publish.
wvars == <<qvars, snapshot>>

vars == <<wvars, fn, pvars>>

\* ------------------------------------------------------------- helpers
Min(S) == CHOOSE x \in S : \A y \in S : x <= y

RECURSIVE SortedSeq(_)
SortedSeq(S) == IF S = {} THEN <<>> ELSE <<Min(S)>> \o SortedSeq(S \ {Min(S)})

Prefix(s, n) == IF Len(s) <= n THEN s ELSE SubSeq(s, 1, n)

Range(s) == {s[i] : i \in 1..Len(s)}

\* -------------------------------------------- the stream and its group
\* The ids that are in the group's pending entries list, whoever owns them.
PendingIds(q) == UNION {q.pel[c] : c \in Workers}

\* XGroupCreateMkStream(video:jobs, video-workers, "0"): an empty stream
\* whose group reads from the beginning of the log.
XGroupCreateMkStream ==
    [stream |-> <<>>, last |-> 0, pel |-> [c \in Workers |-> {}], group |-> TRUE]

\* The server before any XGROUP CREATE: the key video:jobs is absent, or is
\* a stream that has no group video-workers yet (group FALSE).
NoStream == [stream |-> <<>>, last |-> 0, pel |-> [c \in Workers |-> {}], group |-> FALSE]

\* The error reply of XGROUP CREATE for a group that exists.
BusyGroup == "BUSYGROUP Consumer Group name already exists"

\* Mutant of XGroupCreate: the group is created at "$", the end of the log.
XGroupCreateFromEnd(q) ==
    IF q.group
    THEN [q |-> q, err |-> BusyGroup]
    ELSE [q |-> [q EXCEPT !.group = TRUE, !.last = Len(q.stream)], err |-> NoError]

\* XGROUP CREATE video:jobs video-workers 0 MKSTREAM on a server in state q:
\* the group is created with its last-delivered id before the first entry
\* and an empty pending list; when the group exists the reply is BUSYGROUP
\* and nothing changes.
XGroupCreate(q) ==
    IF q.group
    THEN [q |-> q, err |-> BusyGroup]
    ELSE [q |-> [q EXCEPT !.group = TRUE, !.last = 0], err |-> NoError]

\* What Redis does with the commands of an InitRedis call: "ok", it answers
\* both; "ping", the Ping fails (Redis is not reachable); "xgroup", the Ping
\* is answered and XGROUP CREATE fails with an error that is not BUSYGROUP.
InitOutcomes == {"ok", "ping", "xgroup"}
ConnectError == "failed to connect to Redis"
GroupError == "Warning: Failed to create consumer group"

\* InitRedis: a failed Ping is returned as an error, and nothing else is
\* sent; the reply of XGroupCreateMkStream is logged unless it is BUSYGROUP,
\* and nil is returned whatever it is.
InitRedis(q, out) ==
    CASE out = "ping" -> [q |-> q, reply |-> "", err |-> ConnectError]
      [] out = "xgroup" -> [q |-> q, reply |-> GroupError, err |-> NoError]
      [] OTHER -> [q |-> XGroupCreate(q).q, reply |-> XGroupCreate(q).err, err |-> NoError]

\* XADD: append one entry.
XAdd(q, payload) == [q EXCEPT !.stream = Append(@, payload)]

\* Mutant of XReadGroup: the read returns the oldest pending entry of the
\* group when there is one, as a read from id 0 of all consumers would.
XReadGroupPendingFirst(q, consumer) ==
    IF PendingIds(q) # {}
    THEN [q |-> [q EXCEPT !.pel = [c \in Workers |->
                     IF c = consumer THEN q.pel[c] \cup {Min(PendingIds(q))}
                     ELSE q.pel[c] \ {Min(PendingIds(q))}]],
          messages |-> <<Min(PendingIds(q))>>]
    ELSE IF q.last < Len(q.stream)
         THEN [q |-> [q EXCEPT !.last = @ + ReadCount,
                               !.pel[consumer] = @ \cup {q.last + ReadCount}],
               messages |-> <<q.last + ReadCount>>]
         ELSE [q |-> q, messages |-> <<>>]

\* Mutant of XReadGroup: the read never returns an entry.
XReadGroupNothing(q, consumer) == [q |-> q, messages |-> <<>>]

\* XREADGROUP GROUP video-workers <consumer> COUNT 1 STREAMS video:jobs > :
\* the next entry never delivered to the group, recorded as pending for the
\* consumer.  Without the group the reply is the NOGROUP error and no
\* message.
XReadGroup(q, consumer) ==
    IF q.group /\ q.last < Len(q.stream)
    THEN [q |-> [q EXCEPT !.last = @ + ReadCount,
                          !.pel[consumer] = @ \cup {q.last + ReadCount}],
          messages |-> <<q.last + ReadCount>>]
    ELSE [q |-> q, messages |-> <<>>]

\* Mutant of XPendingExt: Count: 1, so only the oldest pending entry is listed.
XPendingExtFirstOnly(q) == Prefix(SortedSeq(PendingIds(q)), 1)

\* XPENDING video:jobs video-workers - + 100: the pending entries of the
\* whole group (no consumer filter), in id order, at most PendingCount.
XPendingExt(q) == Prefix(SortedSeq(PendingIds(q)), PendingCount)

\* Mutant of XClaim: the entry is added to the claimer's list and left in
\* its previous owner's.
XClaimKeepOwner(q, consumer, id) ==
    IF id \in PendingIds(q)
    THEN [q |-> [q EXCEPT !.pel[consumer] = @ \cup {id}], messages |-> <<id>>]
    ELSE [q |-> q, messages |-> <<>>]

\* XCLAIM video:jobs video-workers <consumer> 0 <id>: with min-idle-time 0
\* every entry still pending changes owner, whatever its idle time; an id
\* that is not pending is skipped.
XClaim(q, consumer, id) ==
    IF id \in PendingIds(q)
    THEN [q |-> [q EXCEPT !.pel = [c \in Workers |->
                     IF c = consumer THEN q.pel[c] \cup {id} ELSE q.pel[c] \ {id}]],
          messages |-> <<id>>]
    ELSE [q |-> q, messages |-> <<>>]

\* XACK video:jobs video-workers <id>: removes the id from the group's
\* pending list, whichever consumer owns it.
XAck(q, id) == [q EXCEPT !.pel = [c \in Workers |-> q.pel[c] \ {id}]]

\* The error a command returns that was issued on a cancelled ctx.
CtxCanceled == "context canceled"

\* RedisClient.XAck(ctx, video:jobs, video-workers, id) on the worker's ctx:
\* once the ctx is cancelled the client returns ctx.Err() without sending
\* the command; else XACK is sent and replies n, the number of ids it removed
\* from the pending list, an id that is not pending counting 0 and being no
\* error.  processMessage drops n and err.
XAckCtx(q, w, id) ==
    IF cancelled[w]
    THEN [q |-> q, n |-> 0, err |-> CtxCanceled]
    ELSE [q |-> XAck(q, id), n |-> IF id \in PendingIds(q) THEN 1 ELSE 0, err |-> NoError]

Unseen(q, id) == id > q.last
\* The entry was delivered to a worker of the group.
Delivered(q, id) == ~Unseen(q, id)
Owners(q, id) == {c \in Workers : id \in q.pel[c]}
Pending(q, id) == Owners(q, id) # {}
Acknowledged(q, id) == id <= q.last /\ ~Pending(q, id)

\* parseJob: the job a payload decodes to; Malformed when it does not.
parseJob(payload) == payload
DecodeFails(payload) == parseJob(payload) = Malformed
JobOf(id) == parseJob(queue.stream[id])

\* ----------------------------------------------------- the videos table
NewVideo == [status |-> StatusWaiting, err |-> NoError, completedAt |-> FALSE,
             master |-> FALSE, height |-> 0]
NoVideo == [status |-> NoRow, err |-> NoError, completedAt |-> FALSE,
            master |-> FALSE, height |-> 0]
ZeroVideo == [status |-> "", err |-> NoError, completedAt |-> FALSE,
              master |-> FALSE, height |-> 0]

\* gorm Updates with a struct: only its non-zero fields are written, so a
\* nil pointer or an empty field of the struct leaves the column as it is;
\* WHERE id = ? matches no row when the asset does not exist.
GormUpdates(row, upd) ==
    IF row.status = NoRow THEN row
    ELSE [f \in DOMAIN row |-> IF upd[f] = ZeroVideo[f] THEN row[f] ELSE upd[f]]

\* One metadata write; a failed write is logged and the run continues.
DbUpdate(j, upd, dbok) ==
    IF dbok /\ j \in Jobs
    THEN [videos EXCEPT ![j] = GormUpdates(@, upd)]
    ELSE videos

UpdProcessing == [ZeroVideo EXCEPT !.status = StatusProcessing, !.err = NoError]
\* Mutant of UpdFailed: the failed run puts the asset back to waiting.
UpdFailedAsWaiting(msg) == [ZeroVideo EXCEPT !.status = StatusWaiting, !.err = msg]
UpdFailed(msg) == [ZeroVideo EXCEPT !.status = StatusFailed, !.err = msg]
UpdMetadata(h) == [ZeroVideo EXCEPT !.height = h]
UpdMaster == [ZeroVideo EXCEPT !.master = TRUE]
\* Mutant of UpdCompleted: the completion time is not written.
UpdCompletedNoStamp == [ZeroVideo EXCEPT !.status = StatusCompleted]
UpdCompleted == [ZeroVideo EXCEPT !.status = StatusCompleted, !.completedAt = TRUE]

\* ------------------------------------------------------ rendition ladder
StandardResolutions == <<2160, 1440, 1080, 720, 480, 360, 240, 144>>

\* Mutant of getTargetResolutions: the whole ladder whatever the source.
getTargetResolutionsAll(sourceHeight) == StandardResolutions

\* getTargetResolutions: from the first standard height not above the
\* source down to 144p; the source height alone when none qualifies.
getTargetResolutions(sourceHeight) ==
    LET fits == {i \in 1..Len(StandardResolutions) : StandardResolutions[i] <= sourceHeight}
    IN IF fits = {} THEN <<sourceHeight>>
       ELSE SubSeq(StandardResolutions, Min(fits), Len(StandardResolutions))

\* The heights of the renditions table of the batch worker.
RenditionHeights == <<2160, 1440, 1080, 720, 480, 360, 240, 144>>

\* filterRenditions (batch worker): every preset not above the source, in
\* table order; one custom rendition at the source height when none fits.
filterRenditions(sourceHeight) ==
    LET selected == SelectSeq(RenditionHeights, LAMBDA r : r <= sourceHeight)
    IN IF Len(selected) = 0 THEN <<sourceHeight>> ELSE selected

\* ------------------------------------------------------ master manifest
\* estimateBandwidth: the table for the standard heights, height * 2500 for
\* any other height.
bandwidthMap == (2160 :> 8000000) @@ (1440 :> 6000000) @@ (1080 :> 5000000) @@
                (720 :> 2800000) @@ (480 :> 1400000) @@ (360 :> 800000) @@
                (240 :> 500000) @@ (144 :> 300000)
estimateBandwidth(height) ==
    IF height \in DOMAIN bandwidthMap THEN bandwidthMap[height] ELSE height * 2500

\* The ResolutionInfo transcodeToHLS returns for a rendition.
ResolutionInfo(height) == [height |-> height, bandwidth |-> estimateBandwidth(height)]

\* Mutant of Less: ascending bandwidth.
LessAscending(a, b) == a.bandwidth < b.bandwidth

\* The less function handed to sort.Slice: resolutions[i].Bandwidth >
\* resolutions[j].Bandwidth.
Less(a, b) == a.bandwidth > b.bandwidth

\* sort.Slice on a slice of fewer than 12 elements is an insertion sort: each
\* element moves left while it is less than its left neighbour.  (The worker's
\* ladders hold at most 8 renditions with distinct estimates, on which every
\* sort gives the same order.)
RECURSIVE Insert(_, _)
Insert(s, x) ==
    IF s = <<>> THEN <<x>>
    ELSE IF Less(x, s[Len(s)])
         THEN Append(Insert(SubSeq(s, 1, Len(s) - 1), x), s[Len(s)])
         ELSE Append(s, x)

RECURSIVE SortSlice(_)
SortSlice(s) ==
    IF s = <<>> THEN <<>>
    ELSE Insert(SortSlice(SubSeq(s, 1, Len(s) - 1)), s[Len(s)])

\* generateAndUploadMasterPlaylist: the heights of the manifest's entries in
\* the order they are written, for renditions given in production order.
MasterPlaylist(heights) ==
    LET sorted == SortSlice([i \in 1..Len(heights) |-> ResolutionInfo(heights[i])])
    IN [i \in 1..Len(sorted) |-> sorted[i].height]

\* ------------------------------------------------------- source heights
\* What ffprobe reports for the source of a job: 300 or 100 lines in the
\* runs with failures, 1080 lines in the end-to-end scenario.
ProbedHeight(j) == IF j % 2 = 1 THEN 300 ELSE 100
ScenarioHeight == 1080
SourceHeights == {ProbedHeight(j) : j \in Jobs} \cup {ScenarioHeight}
SourceHeight(j) == source[j]

\* The master playlist of a run on a source of height h: the renditions are
\* handed to generateAndUploadMasterPlaylist in ladder order.
RunManifest == [h \in SourceHeights |-> MasterPlaylist(getTargetResolutions(h))]

\* The labels of the rows the jobs' ladders can create.
Labels == UNION {Range(getTargetResolutions(h)) : h \in SourceHeights}

\* Mutant of progressPercent: the share of setup is left out.
progressPercentNoSetup(i, total) == (i * LadderPercent) \div total

\* progressPercent := 5 + ((i * 90) / len(resolutions)), i counted from 0.
progressPercent(i, total) == SetupPercent + ((i * LadderPercent) \div total)

\* gorm Create of a VideoResolution with a fresh uuid: always a new row.
CreateResolution(j, label, dbok) ==
    IF dbok /\ j \in Jobs /\ videos[j].status # NoRow
    THEN [rows EXCEPT ![j][label] = @ + 1]
    ELSE rows

\* SET progress:<job id> <event> EX 24h: the key holds the event.
SetProgressKey(snap, j, ev) == [snap EXCEPT ![j] = ev]

NoSnapshot == [status |-> "", percent |-> 0]

\* GetProgress: GET progress:<job id>; redis.Nil (not found) when the key was
\* never set or has expired, else the event last stored.
NotFound == [status |-> "not_found", percent |-> 0]
GetProgress(snap, j) == IF snap[j] = NoSnapshot THEN NotFound ELSE snap[j]

\* The job ids progress is published for and asked about, those of Jobs
\* among them.
ProgressJobs == 1..MaxProgressJobs
\* The goroutines that call PublishProgress and the SSE requests.
Publishers == 1..NumPublishers
ConnIds == 1..NumConns

\* No PublishProgress call in flight; nothing sent on a job's channel yet; no
\* request on a connection yet.
NoPublish == [step |-> 0]
NoEvent == [n |-> 0]
NoConn == [kind |-> "none", state |-> "idle"]

\* No run of the batch worker's handler yet: the handler (h) is not called,
\* the goroutine reading ffmpeg's stdout (f) and ffmpeg are not started, the
\* pipe holds no line (lines) and the goroutine's Scanner has buffered none
\* (buf), the handler's ctx has not expired (late).
NoBatch == [h |-> "idle", f |-> "none", ffmpeg |-> "none", written |-> 0, lines |-> 0,
            buf |-> 0, closed |-> FALSE, late |-> FALSE, i |-> 0]

\* No pure function is under check.
NoCall == [f |-> "none"]

\* -------------------------------------------------------- initial state
\* InitDB and InitRedis have run: empty tables, the group created on the
\* empty stream; no worker process is up yet.
\* The tables, the processes and the connections at the start.
InitProcesses ==
    /\ videos = [j \in Jobs |-> NoVideo]
    /\ rows = [j \in Jobs |-> [l \in Labels |-> 0]]
    /\ snapshot = [j \in ProgressJobs |-> NoSnapshot]
    /\ pc = [w \in Workers |-> "down"]
    /\ phase = [w \in Workers |-> "STARTUP"]
    /\ cancelled = [w \in Workers |-> FALSE]
    /\ plist = [w \in Workers |-> <<>>]
    /\ cur = [w \in Workers |-> 0]
    /\ idx = [w \in Workers |-> 0]
    /\ hres = [w \in Workers |-> ""]
    /\ starts = [w \in Workers |-> 0]
    /\ faults = 0
    /\ dupAck = FALSE
    /\ terminalSeen = [j \in Jobs |-> FALSE]
    /\ invoked = [id \in EntryIds |-> 0]
    /\ fn = NoCall
    /\ calls = [p \in Publishers |-> NoPublish]
    /\ sentOn = [j \in ProgressJobs |-> NoEvent]
    /\ allCount = 0
    /\ conns = [c \in ConnIds |-> NoConn]
    /\ manifest = [j \in Jobs |-> <<>>]
    /\ batch = NoBatch
    /\ posting = {}

\* InitRedis has run on an empty server.
InitStores == queue = XGroupCreateMkStream /\ InitProcesses

\* No process has run InitRedis yet: the key video:jobs does not exist.
InitNoGroup ==
    /\ queue = NoStream
    /\ InitProcesses
    /\ source = [j \in Jobs |-> ProbedHeight(j)]

Init == InitStores /\ source = [j \in Jobs |-> ProbedHeight(j)]

\* The end-to-end scenario: the source of every job is 1080 lines high.
InitScenario == InitStores /\ source = [j \in Jobs |-> ScenarioHeight]

Up(w) == pc[w] \notin {"down", "stopped"}
HandlerPcs == {"h_start", "h_probe", "h_probe_failed", "h_meta", "h_rend", "h_row",
               "h_rend_failed", "h_master", "h_master_db", "h_master_failed", "h_complete",
               "publish"}

\* The outcome of a call to a collaborator (database, ffprobe, ffmpeg, object
\* store, XADD): ok is TRUE, or FALSE while the budget of failures lasts.
\* Signals and crashes draw on the same budget.
Outcomes == IF faults < MaxFaults THEN {TRUE, FALSE} ELSE {TRUE}
\* The outcomes of a write to a store (the database, the stream): the stores
\* are taken to be available unless the specification injects their
\* failures as well.
StoreOutcomes(faulty) == IF faulty THEN Outcomes ELSE {TRUE}
Spend(oks) == faults' = faults + Cardinality({i \in DOMAIN oks : ~oks[i]})

\* ------------------------------------------------------------- producer
\* POST /jobs, first round trip: db.WithContext(ctx).Create(&video) inserts
\* the asset row in status waiting.  A Create that fails (the id exists
\* already) answers 500 and enqueues nothing.
SubmitJob(j) ==
    /\ videos[j].status = NoRow
    /\ j \notin posting
    /\ videos' = [videos EXCEPT ![j] = NewVideo]
    /\ posting' = posting \cup {j}
    /\ UNCHANGED <<fn, source, batch, pvars, queue, manifest, terminalSeen, invoked, rows, snapshot, pc, phase,
                   cancelled, plist, cur, idx, hres, starts, faults, dupAck>>

\* POST /jobs, second round trip: pubsub.EnqueueJob, the XADD.  An XADD that
\* fails answers 500 and leaves the row behind.
EnqueueJob(j, enqok) ==
    /\ j \in posting
    /\ posting' = posting \ {j}
    /\ queue' = IF enqok THEN XAdd(queue, j) ELSE queue
    /\ Spend(<<enqok>>)
    /\ UNCHANGED <<fn, source, batch, pvars, videos, manifest, terminalSeen, invoked, rows, snapshot, pc, phase,
                   cancelled, plist, cur, idx, hres, starts, dupAck>>

Submit(faulty) ==
    \/ \E j \in Jobs : SubmitJob(j)
    \/ \E j \in Jobs : \E enqok \in StoreOutcomes(faulty) : EnqueueJob(j, enqok)

\* An entry appended to video:jobs whose "data" field does not decode.
MalformedAdd ==
    /\ Cardinality({i \in 1..Len(queue.stream) : DecodeFails(queue.stream[i])}) < MaxMalformed
    /\ queue' = XAdd(queue, Malformed)
    /\ UNCHANGED <<aux, manifest, terminalSeen, invoked, videos, rows, snapshot, pc, phase, cancelled, plist, cur, idx,
                   hres, starts, faults, dupAck>>

\* -------------------------------------------------------- worker process
\* main: a (re)started worker process enters ConsumeJobs with a fresh ctx.
Start(w) ==
    /\ ~Up(w)
    /\ starts[w] < MaxStarts
    /\ starts' = [starts EXCEPT ![w] = @ + 1]
    /\ pc' = [pc EXCEPT ![w] = "pending"]
    /\ phase' = [phase EXCEPT ![w] = "RECOVERING"]
    /\ cancelled' = [cancelled EXCEPT ![w] = FALSE]
    /\ plist' = [plist EXCEPT ![w] = <<>>]
    /\ cur' = [cur EXCEPT ![w] = 0]
    /\ idx' = [idx EXCEPT ![w] = 0]
    /\ hres' = [hres EXCEPT ![w] = ""]
    /\ UNCHANGED <<aux, manifest, terminalSeen, invoked, queue, videos, rows, snapshot, faults, dupAck>>

\* SIGINT / SIGTERM: the signal goroutine cancels the ctx of ConsumeJobs.
Signal(w) ==
    /\ Up(w)
    /\ ~cancelled[w]
    /\ cancelled' = [cancelled EXCEPT ![w] = TRUE]
    /\ faults < MaxFaults
    /\ faults' = faults + 1
    /\ UNCHANGED <<aux, manifest, terminalSeen, invoked, queue, videos, rows, snapshot, pc, phase, plist, cur, idx,
                   hres, starts, dupAck>>

\* The process ends abruptly: nothing it holds is released, its pending
\* entries stay in the group's list, a PublishProgress call stops where it is.
Panic(w) ==
    /\ pc' = [pc EXCEPT ![w] = "down"]
    /\ phase' = [phase EXCEPT ![w] = "STOPPED"]
    /\ plist' = [plist EXCEPT ![w] = <<>>]
    /\ cur' = [cur EXCEPT ![w] = 0]
    /\ idx' = [idx EXCEPT ![w] = 0]
    /\ hres' = [hres EXCEPT ![w] = ""]
    /\ cancelled' = [cancelled EXCEPT ![w] = FALSE]
    /\ calls' = [calls EXCEPT ![w] = NoPublish]

\* The process vanishes (kill -9, OOM, host loss).
Crash(w) ==
    /\ Up(w)
    /\ Panic(w)
    /\ faults < MaxFaults
    /\ faults' = faults + 1
    /\ UNCHANGED <<haux, sentOn, allCount, conns, manifest, terminalSeen, invoked, queue, videos,
                   rows, snapshot, starts, dupAck>>

\* processPendingMessages, the XPendingExt call.  With the ctx cancelled the
\* call fails, ConsumeJobs logs the warning and goes on to its loop.
ListPending(w) ==
    /\ pc[w] = "pending"
    /\ IF cancelled[w]
       THEN /\ pc' = [pc EXCEPT ![w] = "loop"]
            /\ phase' = [phase EXCEPT ![w] = "CONSUMING"]
            /\ UNCHANGED plist
       ELSE /\ plist' = [plist EXCEPT ![w] = XPendingExt(queue)]
            /\ pc' = [pc EXCEPT ![w] = "claim"]
            /\ UNCHANGED phase
    /\ UNCHANGED <<aux, manifest, terminalSeen, invoked, queue, videos, rows, snapshot, cancelled, cur, idx, hres,
                   starts, faults, dupAck>>

\* processPendingMessages, one iteration of the loop over the pending list:
\* XClaim the id and hand every message claimed to processMessage; a failed
\* XClaim is logged and the loop continues.  After the last id the function
\* returns and ConsumeJobs enters its loop.
ClaimNext(w) ==
    /\ pc[w] = "claim"
    /\ IF plist[w] = <<>>
       THEN /\ pc' = [pc EXCEPT ![w] = "loop"]
            /\ phase' = [phase EXCEPT ![w] = "CONSUMING"]
            /\ UNCHANGED <<queue, plist, cur>>
       ELSE LET id == Head(plist[w])
                res == XClaim(queue, w, id)
            IN /\ plist' = [plist EXCEPT ![w] = Tail(@)]
               /\ UNCHANGED phase
               /\ IF cancelled[w] \/ res.messages = <<>>
                  THEN UNCHANGED <<queue, cur, pc>>
                  ELSE /\ queue' = res.q
                       /\ cur' = [cur EXCEPT ![w] = res.messages[1]]
                       /\ pc' = [pc EXCEPT ![w] = "parse"]
    /\ UNCHANGED <<aux, manifest, terminalSeen, invoked, videos, rows, snapshot, cancelled, idx, hres, starts, faults,
                   dupAck>>

\* Mutant of ReadNext: the loop sends its read without looking at ctx.Done().
ReadNextIgnoresCtx(w) ==
    /\ pc[w] = "loop"
    /\ pc' = [pc EXCEPT ![w] = "reading"]
    /\ UNCHANGED <<aux, manifest, terminalSeen, invoked, queue, videos, rows, snapshot, cancelled,
                   plist, cur, idx, hres, starts, faults, dupAck, phase>>

\* ConsumeJobs, the top of the loop: return ctx.Err() when the ctx is done,
\* else send XREADGROUP ... BLOCK 5000 and wait for its reply.  (A signal
\* between the test and the sending makes the command fail with the ctx's
\* error and the next test return.)
ReadNext(w) ==
    /\ pc[w] = "loop"
    /\ IF cancelled[w]
       THEN /\ pc' = [pc EXCEPT ![w] = "stopped"]
            /\ phase' = [phase EXCEPT ![w] = "STOPPED"]
       ELSE /\ pc' = [pc EXCEPT ![w] = "reading"]
            /\ UNCHANGED phase
    /\ UNCHANGED <<aux, manifest, terminalSeen, invoked, queue, videos, rows, snapshot, cancelled,
                   plist, cur, idx, hres, starts, faults, dupAck>>

\* The reply to the XREADGROUP: the entry Redis delivered to this consumer,
\* which is handed to processMessage, or redis.Nil after the 5 s, or an
\* error (logged, followed by a sleep of 2 s), on which the loop iterates.  A ctx cancelled during the wait does not end the
\* wait: the command was sent and its reply is read.
ReadReply(w) ==
    /\ pc[w] = "reading"
    /\ LET res == XReadGroup(queue, w)
       IN IF res.messages = <<>>
          THEN /\ pc' = [pc EXCEPT ![w] = "loop"]
               /\ UNCHANGED <<queue, cur>>
          ELSE /\ queue' = res.q
               /\ cur' = [cur EXCEPT ![w] = res.messages[1]]
               /\ pc' = [pc EXCEPT ![w] = "parse"]
    /\ UNCHANGED <<aux, manifest, terminalSeen, invoked, videos, rows, snapshot, phase, cancelled,
                   plist, idx, hres, starts, faults, dupAck>>

\* Mutant of ReturnPc: after the first recovered message the worker goes on
\* to its read loop.
ReturnPcLoop(w) == "loop"

\* Where processMessage returns to: the loop over the pending list while
\* recovering, the read loop afterwards.
ReturnPc(w) == IF phase[w] = "RECOVERING" THEN "claim" ELSE "loop"

\* The XAck that processMessage is about to issue reaches Redis and names an
\* id that is no longer pending.
AckOfNotPending(w) == ~cancelled[w] /\ ~Pending(queue, cur[w])

\* Mutant of Decode: every message is acknowledged as soon as it is decoded
\* and the handler is never called.
DecodeSkipsHandler(w) ==
    /\ pc[w] = "parse"
    /\ queue' = XAckCtx(queue, w, cur[w]).q
    /\ dupAck' = (dupAck \/ AckOfNotPending(w))
    /\ pc' = [pc EXCEPT ![w] = ReturnPc(w)]
    /\ cur' = [cur EXCEPT ![w] = 0]
    /\ UNCHANGED <<aux, manifest, terminalSeen, invoked, videos, rows, snapshot, phase,
                   cancelled, plist, idx, hres, starts, faults>>

\* processMessage, up to the handler call: a payload that does not decode is
\* acknowledged and dropped; a decoded job is handed to the handler.
Decode(w) ==
    /\ pc[w] = "parse"
    /\ IF DecodeFails(queue.stream[cur[w]])
       THEN /\ queue' = XAckCtx(queue, w, cur[w]).q
            /\ dupAck' = (dupAck \/ AckOfNotPending(w))
            /\ pc' = [pc EXCEPT ![w] = ReturnPc(w)]
            /\ cur' = [cur EXCEPT ![w] = 0]
            /\ UNCHANGED invoked
       ELSE /\ pc' = [pc EXCEPT ![w] = "h_start"]
            /\ invoked' = [invoked EXCEPT ![cur[w]] = Min({@ + 1, MaxInvoked})]
            /\ UNCHANGED <<queue, dupAck, cur>>
    /\ UNCHANGED <<aux, manifest, terminalSeen, videos, rows, snapshot, phase, cancelled, plist, idx, hres,
                   starts, faults>>

\* Mutant of Finish: the XAck is issued whatever the handler returned.
FinishAlwaysAcks(w) ==
    /\ pc[w] = "ack"
    /\ queue' = XAckCtx(queue, w, cur[w]).q
    /\ dupAck' = (dupAck \/ AckOfNotPending(w))
    /\ pc' = [pc EXCEPT ![w] = ReturnPc(w)]
    /\ cur' = [cur EXCEPT ![w] = 0]
    /\ hres' = [hres EXCEPT ![w] = ""]
    /\ UNCHANGED <<aux, manifest, terminalSeen, invoked, videos, rows, snapshot, phase, cancelled, plist, idx, starts,
                   faults>>

\* Mutant of Finish: an XAck that removed nothing from the pending list is
\* taken for a lost entry, and the job is enqueued again.
FinishRequeues(w) ==
    /\ pc[w] = "ack"
    /\ IF hres[w] = "ok"
       THEN /\ queue' = IF XAckCtx(queue, w, cur[w]).err = NoError /\ XAckCtx(queue, w, cur[w]).n = 0
                         THEN XAdd(queue, queue.stream[cur[w]])
                         ELSE XAckCtx(queue, w, cur[w]).q
            /\ dupAck' = (dupAck \/ AckOfNotPending(w))
       ELSE UNCHANGED <<queue, dupAck>>
    /\ pc' = [pc EXCEPT ![w] = ReturnPc(w)]
    /\ cur' = [cur EXCEPT ![w] = 0]
    /\ hres' = [hres EXCEPT ![w] = ""]
    /\ UNCHANGED <<aux, manifest, terminalSeen, invoked, videos, rows, snapshot, phase, cancelled, plist, idx, starts,
                   faults>>

\* processMessage, after the handler returned: XAck on success, nothing on
\* a processing error.
Finish(w) ==
    /\ pc[w] = "ack"
    /\ IF hres[w] = "ok"
       THEN /\ queue' = XAckCtx(queue, w, cur[w]).q
            /\ dupAck' = (dupAck \/ AckOfNotPending(w))
       ELSE UNCHANGED <<queue, dupAck>>
    /\ pc' = [pc EXCEPT ![w] = ReturnPc(w)]
    /\ cur' = [cur EXCEPT ![w] = 0]
    /\ hres' = [hres EXCEPT ![w] = ""]
    /\ UNCHANGED <<aux, manifest, terminalSeen, invoked, videos, rows, snapshot, phase, cancelled, plist, idx, starts,
                   faults>>

\* ------------------------------------------- processVideoStreaming (handler)
\* The handler's ctx has expired: every call that takes it fails at once
\* (Updates, Create and PutObject return the ctx's error, ffprobe and ffmpeg
\* are killed); such a failure is none of the injected ones.
Late(w) == hres[w] = "late"
CtxOutcomes(w, oks) == IF Late(w) THEN {FALSE} ELSE oks
SpendCtx(w, oks) == IF Late(w) THEN UNCHANGED faults ELSE Spend(oks)

\* What no step of the handler changes.
hframe == <<haux, invoked, queue, phase, cancelled, plist, cur, starts, dupAck>>

\* The event published at the top of iteration i of the loop over the ladder.
LoopEvent(j, i) ==
    [status |-> StatusProcessing,
     percent |-> progressPercent(i, Len(getTargetResolutions(SourceHeight(j))))]

\* Goroutine p calls pubsub.PublishProgress(ev) for job j: no command is sent
\* yet.  next is where the handler of the streaming worker goes on when the
\* call has returned ("ret_ok", "ret_err": it returns nil or an error); it
\* is "" for another caller.
CallPublishProgress(p, j, ev, next) ==
    calls' = [calls EXCEPT ![p] = [step |-> 0, job |-> j, ev |-> ev, next |-> next]]

\* The handler of worker w calls PublishProgress.
BeginPublish(w, ev, next) ==
    /\ CallPublishProgress(w, JobOf(cur[w]), ev, next)
    /\ pc' = [pc EXCEPT ![w] = "publish"]

\* The loop over the ladder is at index i: the next iteration begins with
\* its progress event; after the last one the master playlist is built.
EnterLoop(w, i) ==
    LET j == JobOf(cur[w])
    IN IF i < Len(getTargetResolutions(SourceHeight(j)))
       THEN BeginPublish(w, LoopEvent(j, i), "h_rend")
       ELSE /\ pc' = [pc EXCEPT ![w] = "h_master"]
            /\ calls' = [calls EXCEPT ![w] = NoPublish]

\* PublishProgress returns (its error is dropped by the caller).
EndPublish(w) ==
    LET next == calls[w].next
    IN CASE next = "" -> calls' = [calls EXCEPT ![w] = NoPublish] /\ UNCHANGED <<pc, hres>>
         [] next = "loop" -> EnterLoop(w, idx[w]) /\ UNCHANGED hres
         [] next = "ret_ok" -> /\ calls' = [calls EXCEPT ![w] = NoPublish]
                               /\ pc' = [pc EXCEPT ![w] = "ack"]
                               /\ hres' = [hres EXCEPT ![w] = "ok"]
         [] next = "ret_err" -> /\ calls' = [calls EXCEPT ![w] = NoPublish]
                                /\ pc' = [pc EXCEPT ![w] = "ack"]
                                /\ hres' = [hres EXCEPT ![w] = "err"]
         [] OTHER -> /\ calls' = [calls EXCEPT ![w] = NoPublish]
                     /\ pc' = [pc EXCEPT ![w] = next]
                     /\ UNCHANGED hres

\* Mutant of Receive: the message arrives twice.
ReceiveTwice(conn, msg) == [conn EXCEPT !.inbox = Append(Append(@, msg), msg)]

\* A subscription's inbox with one more message.
Receive(conn, msg) == [conn EXCEPT !.inbox = Append(@, msg)]

\* PUBLISH video:progress:<id>: the event reaches every connection subscribed
\* to the job's channel at this moment.
ToJobTopic(j, ev) ==
    LET n == sentOn[j].n + 1
    IN /\ sentOn' = [sentOn EXCEPT ![j] = [n |-> n, ev |-> ev]]
       /\ conns' = [c \in ConnIds |->
             IF conns[c].state = "streaming" /\ conns[c].kind = "job" /\ conns[c].job = j
             THEN Receive(conns[c], [n |-> n, job |-> j, ev |-> ev])
             ELSE conns[c]]

\* PUBLISH video:progress:all.
ToAllTopic(j, ev) ==
    /\ allCount' = allCount + 1
    /\ conns' = [c \in ConnIds |->
          IF conns[c].state = "streaming" /\ conns[c].kind = "all"
          THEN Receive(conns[c], [n |-> allCount + 1, job |-> j, ev |-> ev])
          ELSE conns[c]]

\* A PublishProgress call of goroutine p has sent `step` commands.
InCall(p, step) == calls[p] # NoPublish /\ calls[p].step = step

\* PublishProgress, first command.  On an error the function returns it and
\* the two other commands are not issued.
PublishJobTopic(p, ok) ==
    /\ InCall(p, 0)
    /\ Spend(<<ok>>)
    /\ LET j == calls[p].job
           ev == calls[p].ev
       IN IF ok
          THEN /\ ToJobTopic(j, ev)
               /\ terminalSeen' = [t \in Jobs |-> terminalSeen[t] \/ (t = j /\ Terminal(ev.status))]
               /\ calls' = [calls EXCEPT ![p].step = 1]
               /\ UNCHANGED <<pc, hres>>
          ELSE /\ EndPublish(p)
               /\ UNCHANGED <<sentOn, conns, terminalSeen>>
    /\ UNCHANGED <<hframe, allCount, snapshot, videos, rows, idx, manifest>>

\* Second command.
PublishAllTopic(p, ok) ==
    /\ InCall(p, 1)
    /\ Spend(<<ok>>)
    /\ IF ok
       THEN /\ ToAllTopic(calls[p].job, calls[p].ev)
            /\ calls' = [calls EXCEPT ![p].step = 2]
            /\ UNCHANGED <<pc, hres>>
       ELSE /\ EndPublish(p)
            /\ UNCHANGED <<allCount, conns>>
    /\ UNCHANGED <<hframe, sentOn, snapshot, terminalSeen, videos, rows, idx, manifest>>

\* Third command, the SET of the snapshot key; the call returns.
SetSnapshot(p, ok) ==
    /\ InCall(p, 2)
    /\ Spend(<<ok>>)
    /\ snapshot' = IF ok THEN SetProgressKey(snapshot, calls[p].job, calls[p].ev)
                   ELSE snapshot
    /\ EndPublish(p)
    /\ UNCHANGED <<hframe, sentOn, allCount, conns, terminalSeen, videos, rows, idx, manifest>>

\* The commands of the PublishProgress call of goroutine p: to Redis, on
\* context.Background().
Publish(p, faulty) ==
    \/ \E ok \in StoreOutcomes(faulty) : PublishJobTopic(p, ok)
    \/ \E ok \in StoreOutcomes(faulty) : PublishAllTopic(p, ok)
    \/ \E ok \in StoreOutcomes(faulty) : SetSnapshot(p, ok)

\* Status to processing (error message meant to be cleared); the first event
\* is published next.
HStart(w, dbok) ==
    /\ pc[w] = "h_start"
    /\ videos' = DbUpdate(JobOf(cur[w]), UpdProcessing, dbok)
    /\ BeginPublish(w, [status |-> StatusProcessing, percent |-> 0], "h_probe")
    /\ SpendCtx(w, <<dbok>>)
    /\ UNCHANGED <<hframe, sentOn, allCount, conns, snapshot, terminalSeen, rows, idx, hres,
                   manifest>>

\* Mutant of HProbe: the error of getVideoMetadata is ignored and the run
\* goes on to the ladder.
HProbeIgnoresError(w, ok) ==
    /\ pc[w] = "h_probe"
    /\ SpendCtx(w, <<ok>>)
    /\ pc' = [pc EXCEPT ![w] = "h_meta"]
    /\ UNCHANGED <<hframe, pvars, snapshot, terminalSeen, videos, rows, idx, hres, manifest>>

\* getVideoMetadata: ffprobe runs and returns the metadata or an error.
HProbe(w, ok) ==
    /\ pc[w] = "h_probe"
    /\ SpendCtx(w, <<ok>>)
    /\ pc' = [pc EXCEPT ![w] = IF ok THEN "h_meta" ELSE "h_probe_failed"]
    /\ UNCHANGED <<hframe, pvars, snapshot, terminalSeen, videos, rows, idx, hres, manifest>>

\* ffprobe failed: status failed with the probe error; the failed event is
\* published next and the error returned.
HProbeFailed(w, dbok) ==
    /\ pc[w] = "h_probe_failed"
    /\ videos' = DbUpdate(JobOf(cur[w]), UpdFailed("probe"), dbok)
    /\ BeginPublish(w, [status |-> StatusFailed, percent |-> 0], "ret_err")
    /\ SpendCtx(w, <<dbok>>)
    /\ UNCHANGED <<hframe, sentOn, allCount, conns, snapshot, terminalSeen, rows, idx, hres,
                   manifest>>

\* The metadata is persisted, the ladder selected; the 5 % event is
\* published next, then the loop over the ladder begins.
HMetadata(w, dbok) ==
    /\ pc[w] = "h_meta"
    /\ LET j == JobOf(cur[w])
       IN videos' = DbUpdate(j, UpdMetadata(SourceHeight(j)), dbok)
    /\ idx' = [idx EXCEPT ![w] = 0]
    /\ BeginPublish(w, [status |-> StatusProcessing, percent |-> SetupPercent], "loop")
    /\ SpendCtx(w, <<dbok>>)
    /\ UNCHANGED <<hframe, sentOn, allCount, conns, snapshot, terminalSeen, rows, hres, manifest>>

\* errMsg := fmt.Sprintf("failed to transcode %dp: %v", res, err): the
\* message names the rendition that failed.
TranscodeError(res) ==
    CASE res = 2160 -> "failed to transcode 2160p"
      [] res = 1440 -> "failed to transcode 1440p"
      [] res = 1080 -> "failed to transcode 1080p"
      [] res = 720 -> "failed to transcode 720p"
      [] res = 480 -> "failed to transcode 480p"
      [] res = 360 -> "failed to transcode 360p"
      [] res = 240 -> "failed to transcode 240p"
      [] res = 144 -> "failed to transcode 144p"
      [] OTHER -> "failed to transcode <source height>p"

\* What ffmpeg, the uploads and the presigning of a transcodeToHLS call, or
\* the upload and the presigning of the master playlist, come to: "ok";
\* "err", ffmpeg or a PutObject failed; "panic", PresignedGetObject failed,
\* which is logged only, and the String() of the nil URL panics (a failure
\* of the store, injected with the other failures of the stores).
CallResults(w, faulty) ==
    IF Late(w) THEN {"err"}
    ELSE IF faults < MaxFaults THEN {"ok", "err"} \cup (IF faulty THEN {"panic"} ELSE {})
    ELSE {"ok"}
SpendResult(w, res) ==
    IF Late(w) \/ res = "ok" THEN UNCHANGED faults ELSE faults' = faults + 1

\* Mutant of HRendition: a rendition that fails is skipped and the loop goes
\* on with the next one.
HRenditionSkipsFailed(w, res) ==
    /\ pc[w] = "h_rend"
    /\ SpendResult(w, res)
    /\ IF res = "panic"
       THEN Panic(w)
       ELSE IF res = "ok"
            THEN /\ pc' = [pc EXCEPT ![w] = "h_row"]
                 /\ UNCHANGED <<phase, plist, cur, idx, hres, cancelled, calls>>
            ELSE /\ idx' = [idx EXCEPT ![w] = @ + 1]
                 /\ EnterLoop(w, idx[w] + 1)
                 /\ UNCHANGED <<phase, plist, cur, hres, cancelled>>
    /\ UNCHANGED <<haux, invoked, queue, starts, dupAck, sentOn, allCount, conns, snapshot,
                   terminalSeen, videos, rows, manifest>>

\* transcodeToHLS up to the row: ffmpeg writes the rendition, the segments
\* and the playlist are uploaded, the playlist's URL is presigned.
HRendition(w, res) ==
    /\ pc[w] = "h_rend"
    /\ SpendResult(w, res)
    /\ IF res = "panic"
       THEN Panic(w)
       ELSE /\ pc' = [pc EXCEPT ![w] = IF res = "ok" THEN "h_row" ELSE "h_rend_failed"]
            /\ UNCHANGED <<phase, plist, cur, idx, hres, cancelled, calls>>
    /\ UNCHANGED <<haux, invoked, queue, starts, dupAck, sentOn, allCount, conns, snapshot,
                   terminalSeen, videos, rows, manifest>>

\* transcodeToHLS, its end: the VideoResolution row is created (an error is
\* logged only) and the loop goes to the next rendition.
HCreateRow(w, dbok) ==
    /\ pc[w] = "h_row"
    /\ LET j == JobOf(cur[w])
           i == idx[w]
       IN /\ rows' = CreateResolution(j, getTargetResolutions(SourceHeight(j))[i + 1], dbok)
          /\ idx' = [idx EXCEPT ![w] = i + 1]
          /\ EnterLoop(w, i + 1)
    /\ SpendCtx(w, <<dbok>>)
    /\ UNCHANGED <<hframe, sentOn, allCount, conns, snapshot, terminalSeen, videos, hres,
                   manifest>>

\* transcodeToHLS failed: status failed with the rendition's error; the
\* failed event is published next and the error returned, the remaining
\* renditions not attempted.
HRenditionFailed(w, dbok) ==
    /\ pc[w] = "h_rend_failed"
    /\ LET j == JobOf(cur[w])
           i == idx[w]
           res == getTargetResolutions(SourceHeight(j))[i + 1]
       IN /\ videos' = DbUpdate(j, UpdFailed(TranscodeError(res)), dbok)
          /\ BeginPublish(w, [status |-> StatusFailed, percent |-> LoopEvent(j, i).percent],
                          "ret_err")
    /\ SpendCtx(w, <<dbok>>)
    /\ UNCHANGED <<hframe, sentOn, allCount, conns, snapshot, terminalSeen, rows, idx, hres,
                   manifest>>

\* generateAndUploadMasterPlaylist, the upload and the presigning: the
\* playlist, sorted, is put under <id>/processed/master.m3u8.
HMaster(w, res) ==
    /\ pc[w] = "h_master"
    /\ SpendResult(w, res)
    /\ manifest' = IF res = "err" THEN manifest
                   ELSE [manifest EXCEPT ![JobOf(cur[w])] =
                            RunManifest[SourceHeight(JobOf(cur[w]))]]
    /\ IF res = "panic"
       THEN Panic(w)
       ELSE /\ pc' = [pc EXCEPT ![w] = IF res = "ok" THEN "h_master_db" ELSE "h_master_failed"]
            /\ UNCHANGED <<phase, plist, cur, idx, hres, cancelled, calls>>
    /\ UNCHANGED <<haux, invoked, queue, starts, dupAck, sentOn, allCount, conns, snapshot,
                   terminalSeen, videos, rows>>

\* generateAndUploadMasterPlaylist, its end: the playlist's key and URL are
\* written to the asset row (an error is logged only).
HMasterUrl(w, dbok) ==
    /\ pc[w] = "h_master_db"
    /\ videos' = DbUpdate(JobOf(cur[w]), UpdMaster, dbok)
    /\ pc' = [pc EXCEPT ![w] = "h_complete"]
    /\ SpendCtx(w, <<dbok>>)
    /\ UNCHANGED <<hframe, pvars, snapshot, terminalSeen, rows, idx, hres, manifest>>

\* The upload of the master playlist failed: status failed, the error is
\* returned; no event is published.
HMasterFailed(w, dbok) ==
    /\ pc[w] = "h_master_failed"
    /\ videos' = DbUpdate(JobOf(cur[w]), UpdFailed("master"), dbok)
    /\ hres' = [hres EXCEPT ![w] = "err"]
    /\ pc' = [pc EXCEPT ![w] = "ack"]
    /\ SpendCtx(w, <<dbok>>)
    /\ UNCHANGED <<hframe, pvars, snapshot, terminalSeen, rows, idx, manifest>>

\* Mark as completed; the 100 % event is published next and nil returned.
HComplete(w, dbok) ==
    /\ pc[w] = "h_complete"
    /\ videos' = DbUpdate(JobOf(cur[w]), UpdCompleted, dbok)
    /\ BeginPublish(w, [status |-> StatusCompleted, percent |-> DonePercent], "ret_ok")
    /\ SpendCtx(w, <<dbok>>)
    /\ UNCHANGED <<hframe, sentOn, allCount, conns, snapshot, terminalSeen, rows, idx, hres,
                   manifest>>

Handler(w, faulty) ==
    \/ \E dbok \in CtxOutcomes(w, StoreOutcomes(faulty)) : HStart(w, dbok)
    \/ \E ok \in CtxOutcomes(w, Outcomes) : HProbe(w, ok)
    \/ \E dbok \in CtxOutcomes(w, StoreOutcomes(faulty)) : HProbeFailed(w, dbok)
    \/ \E dbok \in CtxOutcomes(w, StoreOutcomes(faulty)) : HMetadata(w, dbok)
    \/ \E res \in CallResults(w, faulty) : HRendition(w, res)
    \/ \E dbok \in CtxOutcomes(w, StoreOutcomes(faulty)) : HCreateRow(w, dbok)
    \/ \E dbok \in CtxOutcomes(w, StoreOutcomes(faulty)) : HRenditionFailed(w, dbok)
    \/ \E res \in CallResults(w, faulty) : HMaster(w, res)
    \/ \E dbok \in CtxOutcomes(w, StoreOutcomes(faulty)) : HMasterUrl(w, dbok)
    \/ \E dbok \in CtxOutcomes(w, StoreOutcomes(faulty)) : HMasterFailed(w, dbok)
    \/ \E dbok \in CtxOutcomes(w, StoreOutcomes(faulty)) : HComplete(w, dbok)
    \/ Publish(w, faulty)

Worker(w, faulty) ==
    \/ Start(w)
    \/ Signal(w)
    \/ Crash(w)
    \/ ListPending(w)
    \/ ClaimNext(w)
    \/ ReadNext(w)
    \/ ReadReply(w)
    \/ Decode(w)
    \/ Handler(w, faulty)
    \/ Finish(w)

\* The stores available: failures of ffprobe, ffmpeg and the object store,
\* signals and crashes only.
Next ==
    \/ Submit(FALSE)
    \/ MalformedAdd
    \/ \E w \in Workers : Worker(w, FALSE)

Spec == Init /\ [][Next]_vars

\* As Next, and every write to the database and every XADD may fail too.
NextStoreFaults ==
    \/ Submit(TRUE)
    \/ MalformedAdd
    \/ \E w \in Workers : Worker(w, TRUE)

SpecStoreFaults == Init /\ [][NextStoreFaults]_vars


\* ------------------------------------------- a worker that stays running
\* The steps of a worker process that is up: the goroutine of ConsumeJobs is
\* scheduled, a blocking XReadGroup returns when an entry is there, ffprobe,
\* ffmpeg and the uploads return (the handler's ctx times out after 2 h).
Step(w) ==
    \/ ListPending(w)
    \/ ClaimNext(w)
    \/ ReadNext(w)
    \/ ReadReply(w)
    \/ Decode(w)
    \/ Handler(w, FALSE)
    \/ Finish(w)

\* The worker that stays running: it is started and never signalled.
Survivor == Min(Workers)

\* As Next without crashes; the other workers may still be signalled and
\* restarted.
NextLive ==
    \/ Submit(FALSE)
    \/ MalformedAdd
    \/ \E w \in Workers : Start(w)
    \/ \E w \in Workers \ {Survivor} : Signal(w)
    \/ \E w \in Workers : Step(w)

\* Fair scheduling: every worker process takes its next step when it has
\* one, and the worker that stays running is started.
SpecLive ==
    /\ Init
    /\ [][NextLive]_vars
    /\ WF_vars(Start(Survivor))
    /\ \A w \in Workers : WF_vars(Step(w))

\* ----------------------------------------------------- end-to-end scenario
\* Jobs whose source is 1080 lines high are submitted and the workers take
\* their steps, without signals and crashes; ffprobe, ffmpeg and the object
\* store may fail.
NextScenario ==
    \/ Submit(FALSE)
    \/ \E w \in Workers : Start(w)
    \/ \E w \in Workers : Step(w)

SpecScenario == InitScenario /\ [][NextScenario]_vars

\* ------------------------------------------------- cooperative shutdown
\* As NextLive, and any worker may be signalled.
NextShutdown ==
    \/ Submit(FALSE)
    \/ MalformedAdd
    \/ \E w \in Workers : Start(w)
    \/ \E w \in Workers : Signal(w)
    \/ \E w \in Workers : Step(w)

\* Fair scheduling of the steps of every worker process.
SpecShutdown ==
    /\ Init
    /\ [][NextShutdown]_vars
    /\ \A w \in Workers : WF_vars(Step(w))

\* ------------------------------------------------- ladder selection alone
\* One call of a ladder function on a source height ffprobe can report.
CallGetTargetResolutions ==
    /\ fn = NoCall
    /\ \E h \in 1..MaxHeight :
          fn' = [f |-> "getTargetResolutions", h |-> h, out |-> getTargetResolutions(h)]
    /\ UNCHANGED <<wvars, pvars>>

CallFilterRenditions ==
    /\ fn = NoCall
    /\ \E h \in 1..MaxHeight :
          fn' = [f |-> "filterRenditions", h |-> h, out |-> filterRenditions(h)]
    /\ UNCHANGED <<wvars, pvars>>

NextLadder == CallGetTargetResolutions \/ CallFilterRenditions

SpecLadder == Init /\ [][NextLadder]_vars

\* ------------------------------------------------ progress percent alone
\* The percent computed at the top of iteration index of the loop over a
\* ladder of total renditions.
CallProgressPercent ==
    /\ fn = NoCall
    /\ \E total \in 1..MaxTotal : \E index \in 0..(total - 1) :
          fn' = [f |-> "progressPercent", index |-> index, total |-> total,
                 out |-> progressPercent(index, total)]
    /\ UNCHANGED <<wvars, pvars>>

SpecPercent == Init /\ [][CallProgressPercent]_vars

\* ---------------------------------------------- bandwidth estimate alone
\* The heights a rendition can have: the standard rungs, and the source's
\* own height when it is below every rung.
EstimatedHeights == 1..MaxCustom \cup Range(StandardResolutions)

\* estimateBandwidth called on two heights, the lower one first.
CallEstimateBandwidth ==
    /\ fn = NoCall
    /\ \E h1, h2 \in EstimatedHeights :
          /\ h1 <= h2
          /\ fn' = [f |-> "estimateBandwidth", h1 |-> h1, h2 |-> h2,
                    out1 |-> estimateBandwidth(h1), out2 |-> estimateBandwidth(h2)]
    /\ UNCHANGED <<wvars, pvars>>

SpecBandwidth == Init /\ [][CallEstimateBandwidth]_vars

\* ------------------------------------------------- master manifest alone
\* processVideoStreaming hands generateAndUploadMasterPlaylist the renditions
\* of the whole ladder of the source, in the order of its loop over
\* getTargetResolutions (a run that fails at a rendition returns before):
\* a suffix of the standard ladder, or the one custom height.
CallMasterPlaylist ==
    /\ fn = NoCall
    /\ \E h \in 1..MaxHeight :
          fn' = [f |-> "generateAndUploadMasterPlaylist", source |-> h,
                 in |-> getTargetResolutions(h),
                 out |-> MasterPlaylist(getTargetResolutions(h))]
    /\ UNCHANGED <<wvars, pvars>>

NextManifest == CallMasterPlaylist

SpecManifest == Init /\ [][NextManifest]_vars

\* ---------------------------------------------------- recovery pass alone
\* A group in which n entries were delivered and none acknowledged: the
\* first k are pending under the first worker, the others under the last.
PendingQueue(n, k) ==
    [stream |-> [i \in 1..n |-> Min(Jobs)], last |-> n,
     pel |-> [c \in Workers |-> IF c = Min(Workers) THEN 1..k
                                ELSE IF c = NumWorkers THEN (k + 1)..n ELSE {}],
     group |-> TRUE]

\* The ids whose XClaim returned the message, for the ids XPendingExt listed.
RECURSIVE ClaimAll(_, _, _)
ClaimAll(q, w, ids) ==
    IF ids = <<>> THEN {}
    ELSE LET res == XClaim(q, w, Head(ids))
         IN Range(res.messages) \cup ClaimAll(res.q, w, Tail(ids))

\* processPendingMessages of worker w on a group with n pending entries, no
\* other worker running meanwhile: what was pending, listed and claimed.
CallProcessPendingMessages ==
    /\ fn = NoCall
    /\ \E n \in 0..MaxPending, w \in Workers :
          \E k \in {0, n \div 2, n} :
             LET q == PendingQueue(n, k)
                 listed == XPendingExt(q)
             IN fn' = [f |-> "processPendingMessages", w |-> w, k |-> k,
                       pending |-> PendingIds(q), listed |-> Len(listed),
                       claimed |-> ClaimAll(q, w, listed)]
    /\ UNCHANGED <<wvars, pvars>>

NextRecovery == CallProcessPendingMessages

SpecRecovery == Init /\ [][NextRecovery]_vars

\* ------------------------------------------- db/repository.go, on its own
\* The writers of package db that use database/sql. Nothing in the API server
\* or the workers calls them; they are applied here to the videos table on
\* their own. DB.Exec either runs the statement or returns an error and
\* changes nothing.
RepoMessages == {"", "probe"}

\* INSERT INTO videos with the status of the caller's struct; error_message
\* and completed_at are not in the column list. The id is the primary key.
CreateVideo(vs, j, status) ==
    IF vs[j].status = NoRow
    THEN [vs |-> [vs EXCEPT ![j] = [NewVideo EXCEPT !.status = status]], err |-> NoError]
    ELSE [vs |-> vs, err |-> "duplicate key"]

\* UPDATE videos SET status, updated_at, error_message WHERE id: the message
\* is written whatever it is, the empty one included; no row, no change.
UpdateVideoStatus(vs, j, status, msg) ==
    IF vs[j].status = NoRow THEN vs
    ELSE [vs EXCEPT ![j].status = status, ![j].err = msg]

\* UPDATE videos SET source_width, source_height, duration, file_size.
UpdateVideoMetadata(vs, j, h) ==
    IF vs[j].status = NoRow THEN vs ELSE [vs EXCEPT ![j].height = h]

\* UPDATE videos SET status = completed, completed_at, updated_at.
CompleteVideo(vs, j) ==
    IF vs[j].status = NoRow THEN vs
    ELSE [vs EXCEPT ![j].status = StatusCompleted, ![j].completedAt = TRUE]

\* UPDATE videos SET master_playlist_key, master_playlist_url.
UpdateMasterPlaylist(vs, j) ==
    IF vs[j].status = NoRow THEN vs ELSE [vs EXCEPT ![j].master = TRUE]

\* One call of a writer: the table after it and the error it returns.
CallRepository(f, j, after, err) ==
    /\ videos' = after
    /\ fn' = [f |-> f, job |-> j, err |-> err]
    /\ UNCHANGED <<queue, rows, snapshot, pc, phase, cancelled, plist, cur, idx, hres,
                   starts, faults, dupAck, terminalSeen, invoked, manifest, source,
                   batch, posting, pvars>>

NextRepository ==
    \E j \in Jobs : \E ok \in BOOLEAN :
        \/ \E status \in {StatusWaiting, StatusProcessing, StatusCompleted, StatusFailed} :
              LET r == CreateVideo(videos, j, status)
              IN CallRepository("CreateVideo", j, IF ok THEN r.vs ELSE videos,
                                IF ok THEN r.err ELSE "exec")
        \/ \E status \in {StatusWaiting, StatusProcessing, StatusCompleted, StatusFailed} :
           \E msg \in RepoMessages :
              CallRepository("UpdateVideoStatus", j,
                             IF ok THEN UpdateVideoStatus(videos, j, status, msg) ELSE videos,
                             IF ok THEN NoError ELSE "exec")
        \/ \E h \in SourceHeights :
              CallRepository("UpdateVideoMetadata", j,
                             IF ok THEN UpdateVideoMetadata(videos, j, h) ELSE videos,
                             IF ok THEN NoError ELSE "exec")
        \/ CallRepository("CompleteVideo", j,
                          IF ok THEN CompleteVideo(videos, j) ELSE videos,
                          IF ok THEN NoError ELSE "exec")
        \/ CallRepository("UpdateMasterPlaylist", j,
                          IF ok THEN UpdateMasterPlaylist(videos, j) ELSE videos,
                          IF ok THEN NoError ELSE "exec")

SpecRepository == Init /\ [][NextRepository]_vars

\* ------------------------------------------------- batch worker, one run
\* processVideoStreaming of the batch worker (one ffmpeg run for the whole
\* ladder) on the job of an entry it was handed, with the goroutine that
\* forwards ffmpeg's -progress lines as processing events.
StatusStarted == "started"
BatchJob == Min(Jobs)

\* The two goroutines of the run that call PublishProgress: the handler and
\* the goroutine that reads ffmpeg's stdout.
BatchHandler == Min(Publishers)
BatchForwarder == Min(Publishers \ {BatchHandler})

\* What a step of the run leaves alone.
bframe == <<fn, sentOn, allCount, conns, source, posting, queue, pc, phase, cancelled,
            plist, cur, idx, hres, starts, faults, dupAck, terminalSeen, invoked, snapshot>>

\* An event of the run.
BatchEvent(status) == [status |-> status, percent |-> 0]

\* The handler has returned from its last PublishProgress call.
BatchReady == calls[BatchHandler] = NoPublish

\* The outcomes of a call that takes the handler's ctx (Updates, Create,
\* PutObject, ffprobe): once the 2 h have passed it fails.
BatchCtx == IF batch.late THEN {FALSE} ELSE {TRUE, FALSE}

\* ctx, cancel := context.WithTimeout(context.Background(), 2*time.Hour): the
\* two hours pass while the handler is running.
BDeadline ==
    /\ batch.h \notin {"idle", "returned"}
    /\ ~batch.late
    /\ batch' = [batch EXCEPT !.late = TRUE]
    /\ UNCHANGED <<bframe, manifest, calls, videos, rows>>

\* The handler is called: status to processing (an error is logged only);
\* the started event is published next.
BStart(dbok) ==
    /\ batch.h = "idle"
    /\ \E id \in 1..Len(queue.stream) : queue.stream[id] = BatchJob
    /\ videos' = DbUpdate(BatchJob, UpdProcessing, dbok)
    /\ CallPublishProgress(BatchHandler, BatchJob, BatchEvent(StatusStarted), "")
    /\ batch' = [batch EXCEPT !.h = "probe"]
    /\ UNCHANGED <<bframe, manifest, rows>>

\* getVideoMetadata: ffprobe runs and returns the metadata or an error.
BProbe(ok) ==
    /\ batch.h = "probe" /\ BatchReady
    /\ batch' = [batch EXCEPT !.h = IF ok THEN "meta" ELSE "probe_failed"]
    /\ UNCHANGED <<bframe, manifest, calls, videos, rows>>

\* ffprobe failed: status failed (the result of the Updates is dropped); the
\* failed event is published next and the error returned.
BProbeFailed(dbok) ==
    /\ batch.h = "probe_failed"
    /\ videos' = DbUpdate(BatchJob, UpdFailed("probe"), dbok)
    /\ CallPublishProgress(BatchHandler, BatchJob, BatchEvent(StatusFailed), "")
    /\ batch' = [batch EXCEPT !.h = "ending"]
    /\ UNCHANGED <<bframe, manifest, rows>>

\* The metadata is stored (an error is logged only), the renditions
\* selected; a processing event is published next.
BMetadata(dbok) ==
    /\ batch.h = "meta"
    /\ videos' = DbUpdate(BatchJob, UpdMetadata(SourceHeight(BatchJob)), dbok)
    /\ CallPublishProgress(BatchHandler, BatchJob, BatchEvent(StatusProcessing), "")
    /\ batch' = [batch EXCEPT !.h = "start"]
    /\ UNCHANGED <<bframe, manifest, rows>>

\* transcodeToHLSBatch up to cmd.Run: the goroutine on stdout is started,
\* then ffmpeg.
BRun ==
    /\ batch.h = "start" /\ BatchReady
    /\ batch' = [batch EXCEPT !.h = "run", !.f = "scan", !.ffmpeg = "running"]
    /\ UNCHANGED <<bframe, manifest, calls, videos, rows>>

\* ffmpeg writes a progress block to its stdout in one write; the block has
\* LinesPerBlock lines the goroutine's regexp matches.
FFmpegWrites ==
    /\ batch.ffmpeg = "running"
    /\ batch.written < MaxLines
    /\ batch' = [batch EXCEPT !.written = @ + 1, !.lines = @ + LinesPerBlock]
    /\ UNCHANGED <<bframe, manifest, calls, videos, rows>>

\* ffmpeg exits, with status 0 or not; its end of the pipe is closed.  When
\* the ctx has expired exec.CommandContext has killed it.
FFmpegExits(ok) ==
    /\ batch.ffmpeg = "running"
    /\ batch' = [batch EXCEPT !.ffmpeg = IF ok THEN "exit0" ELSE "exit1"]
    /\ UNCHANGED <<bframe, manifest, calls, videos, rows>>

\* cmd.Run returns: Wait has seen the exit and closed the read end of the
\* stdout pipe, what was not read from the pipe is lost; it does not wait
\* for the goroutine.
BRunReturns ==
    /\ batch.h = "run"
    /\ batch.ffmpeg \in {"exit0", "exit1"}
    /\ batch' = [batch EXCEPT !.closed = TRUE, !.lines = 0,
                              !.h = IF batch.ffmpeg = "exit0" THEN "master" ELSE "failing"]
    /\ UNCHANGED <<bframe, manifest, calls, videos, rows>>

\* publishProgress: scanner.Scan returns a matching line and PublishProgress
\* is called with a processing event for it.  The Scanner serves the lines
\* it has buffered, also after the read end was closed; with its buffer
\* empty it reads what the pipe holds.
FScan ==
    /\ batch.f = "scan" /\ calls[BatchForwarder] = NoPublish
    /\ batch.buf > 0 \/ (~batch.closed /\ batch.lines > 0)
    /\ batch' = IF batch.buf > 0
                THEN [batch EXCEPT !.buf = @ - 1]
                ELSE [batch EXCEPT !.buf = batch.lines - 1, !.lines = 0]
    /\ CallPublishProgress(BatchForwarder, BatchJob, BatchEvent(StatusProcessing), "")
    /\ UNCHANGED <<bframe, manifest, videos, rows>>

\* publishProgress: with nothing buffered scanner.Scan reads, gets the end
\* of file after ffmpeg's exit or the error of the closed read end, and
\* returns false; the goroutine ends.
FEnd ==
    /\ batch.f = "scan" /\ calls[BatchForwarder] = NoPublish
    /\ batch.buf = 0
    /\ batch.closed \/ (batch.ffmpeg \in {"exit0", "exit1"} /\ batch.lines = 0)
    /\ batch' = [batch EXCEPT !.f = "done"]
    /\ UNCHANGED <<bframe, manifest, calls, videos, rows>>

\* Upload of the master.m3u8 that ffmpeg wrote: it lists the renditions in
\* the order of -var_stream_map.
BUploadMaster(ok) ==
    /\ batch.h = "master"
    /\ batch' = [batch EXCEPT !.h = IF ok THEN "master_db" ELSE "failing"]
    /\ manifest' = IF ok
                   THEN [manifest EXCEPT ![BatchJob] = filterRenditions(SourceHeight(BatchJob))]
                   ELSE manifest
    /\ UNCHANGED <<bframe, calls, videos, rows>>

\* The update of the asset's playlist location (its result is dropped).
BMasterUrl(dbok) ==
    /\ batch.h = "master_db"
    /\ videos' = DbUpdate(BatchJob, UpdMaster, dbok)
    /\ batch' = [batch EXCEPT !.h = "upload", !.i = 0]
    /\ UNCHANGED <<bframe, manifest, calls, rows>>

\* Upload of the files of rendition i.
BUploadRendition(ok) ==
    /\ batch.h = "upload"
    /\ batch' = [batch EXCEPT !.h = IF ok THEN "row" ELSE "failing"]
    /\ UNCHANGED <<bframe, manifest, calls, videos, rows>>

\* The creation of the row of rendition i (an error is logged only); the
\* loop goes to the next one.
BCreateRow(dbok) ==
    /\ batch.h = "row"
    /\ LET renditions == filterRenditions(SourceHeight(BatchJob))
       IN /\ rows' = CreateResolution(BatchJob, renditions[batch.i + 1], dbok)
          /\ batch' = [batch EXCEPT !.i = @ + 1,
                          !.h = IF batch.i + 1 = Len(renditions) THEN "completing"
                                ELSE "upload"]
    /\ UNCHANGED <<bframe, manifest, calls, videos>>

\* transcodeToHLSBatch returned an error: status failed (the result of the
\* Updates is dropped); the failed event is published next and the error
\* returned.
BFail(dbok) ==
    /\ batch.h = "failing"
    /\ videos' = DbUpdate(BatchJob, UpdFailed("failed to transcode video"), dbok)
    /\ CallPublishProgress(BatchHandler, BatchJob, BatchEvent(StatusFailed), "")
    /\ batch' = [batch EXCEPT !.h = "ending"]
    /\ UNCHANGED <<bframe, manifest, rows>>

\* Mark as completed (an error is logged only); the completed event is
\* published next and nil returned.
BComplete(dbok) ==
    /\ batch.h = "completing"
    /\ videos' = DbUpdate(BatchJob, UpdCompleted, dbok)
    /\ CallPublishProgress(BatchHandler, BatchJob, BatchEvent(StatusCompleted), "")
    /\ batch' = [batch EXCEPT !.h = "ending"]
    /\ UNCHANGED <<bframe, manifest, rows>>

\* The handler returns.
BReturn ==
    /\ batch.h = "ending" /\ BatchReady
    /\ batch' = [batch EXCEPT !.h = "returned"]
    /\ UNCHANGED <<bframe, manifest, calls, videos, rows>>

NextBatch ==
    \/ Submit(FALSE)
    \/ BDeadline
    \/ \E dbok \in BatchCtx : BStart(dbok)
    \/ \E ok \in BatchCtx : BProbe(ok)
    \/ \E dbok \in BatchCtx : BProbeFailed(dbok)
    \/ \E dbok \in BatchCtx : BMetadata(dbok)
    \/ BRun
    \/ FFmpegWrites
    \/ \E ok \in BatchCtx : FFmpegExits(ok)
    \/ BRunReturns
    \/ FScan
    \/ FEnd
    \/ \E ok \in BatchCtx : BUploadMaster(ok)
    \/ \E dbok \in BatchCtx : BMasterUrl(dbok)
    \/ \E ok \in BatchCtx : BUploadRendition(ok)
    \/ \E dbok \in BatchCtx : BCreateRow(dbok)
    \/ \E dbok \in BatchCtx : BFail(dbok)
    \/ \E dbok \in BatchCtx : BComplete(dbok)
    \/ BReturn
    \/ \E p \in Publishers : Publish(p, FALSE)

SpecBatch == Init /\ [][NextBatch]_vars

\* -------------------------------------------------- progress distribution
\* PublishProgress is three commands, PUBLISH video:progress:<id>, PUBLISH
\* video:progress:all and SET progress:<id>; calls of different goroutines
\* (the handlers of two workers; in the batch worker the handler and the
\* goroutine that reads ffmpeg's stdout, which is not joined) interleave.
ProgressEvents ==
    { [status |-> StatusProcessing, percent |-> SetupPercent],
      [status |-> StatusFailed, percent |-> SetupPercent],
      [status |-> StatusCompleted, percent |-> DonePercent] }

\* The PublishProgress calls begun so far and not failed.
Begun == allCount + Cardinality({p \in Publishers : calls[p] # NoPublish /\ calls[p].step < 2})

\* A goroutine of a worker calls PublishProgress.
PublishEvent(p, j, ev) ==
    /\ calls[p] = NoPublish
    /\ Begun < MaxPublishes
    /\ CallPublishProgress(p, j, ev, "")
    /\ UNCHANGED <<qvars, snapshot, fn, sentOn, allCount, conns>>

\* The key's 24 hours have passed without a new SET.
ExpireSnapshot(j) ==
    /\ snapshot[j] # NoSnapshot
    /\ snapshot' = [snapshot EXCEPT ![j] = NoSnapshot]
    /\ UNCHANGED <<qvars, fn, pvars>>

\* GET /progress/<id> (kind "job") or GET /progress (kind "all") arrives.
\* Besides the request's position (state) a connection has g, the position
\* of the goroutine its subscription starts ("none": not started, "select":
\* at its select, "sending": blocked in progressChan <- &progress with the
\* message held, "done": returned, progressChan and the subscription
\* closed), h, the position of the handler ("loop": not returned,
\* "returned"), and done, the state of r.Context().
Connect(c, kind, j) ==
    /\ conns[c].state = "idle"
    /\ conns' = [conns EXCEPT ![c] =
          [kind |-> kind, job |-> j, since |-> 0, inbox |-> <<>>, sent |-> <<>>,
           state |-> IF kind = "job" THEN "snapshot" ELSE "subscribing",
           g |-> "none", held |-> NoEvent, h |-> "loop", done |-> FALSE]]
    /\ UNCHANGED <<wvars, fn, calls, sentOn, allCount>>

\* /progress/<id>: "Send current progress if available".
SendSnapshot(c) ==
    /\ conns[c].state = "snapshot"
    /\ LET progress == GetProgress(snapshot, conns[c].job)
       IN conns' = [conns EXCEPT ![c].state = "subscribing",
                                 ![c].sent =
                     IF progress = NotFound THEN @
                     ELSE Append(@, [src |-> "snapshot", n |-> 0, job |-> conns[c].job,
                                     ev |-> progress])]
    /\ UNCHANGED <<wvars, fn, calls, sentOn, allCount>>

\* SubscribeToProgress / SubscribeToAllProgress: SUBSCRIBE takes effect and
\* the forwarding goroutine is started.
Subscribe(c) ==
    /\ conns[c].state = "subscribing"
    /\ conns' = [conns EXCEPT ![c].state = "streaming",
                              ![c].g = "select",
                              ![c].since = IF conns[c].kind = "job"
                                           THEN sentOn[conns[c].job].n ELSE allCount]
    /\ UNCHANGED <<wvars, fn, calls, sentOn, allCount>>

\* case msg := <-pubsub.Channel(): the goroutine takes the next message; the
\* case may be chosen also when ctx.Done() is ready.
GTake(c) ==
    /\ conns[c].state = "streaming" /\ conns[c].g = "select"
    /\ conns[c].inbox # <<>>
    /\ conns' = [conns EXCEPT ![c].g = "sending",
                              ![c].held = Head(conns[c].inbox),
                              ![c].inbox = Tail(@)]
    /\ UNCHANGED <<wvars, fn, calls, sentOn, allCount>>

\* case <-ctx.Done(): return; the deferred pubsub.Close() and
\* close(progressChan) run.
GDone(c) ==
    /\ conns[c].state = "streaming" /\ conns[c].g = "select"
    /\ conns[c].done
    /\ conns' = [conns EXCEPT ![c].g = "done", ![c].state = "closed", ![c].inbox = <<>>]
    /\ UNCHANGED <<wvars, fn, calls, sentOn, allCount>>

\* case progress := <-progressChan: the send of the goroutine and the receive
\* of the handler meet; the handler writes the event; that of /progress/<id>
\* returns after a terminal one, which cancels r.Context().
HReceive(c) ==
    /\ conns[c].state = "streaming" /\ conns[c].h = "loop"
    /\ conns[c].g = "sending"
    /\ LET msg == conns[c].held
           last == conns[c].kind = "job" /\ Terminal(msg.ev.status)
       IN conns' = [conns EXCEPT
              ![c].g = "select",
              ![c].held = NoEvent,
              ![c].sent = Append(@, [src |-> "live", n |-> msg.n, job |-> msg.job,
                                     ev |-> msg.ev]),
              ![c].h = IF last THEN "returned" ELSE "loop",
              ![c].done = (@ \/ last)]
    /\ UNCHANGED <<wvars, fn, calls, sentOn, allCount>>

\* The client goes away: r.Context() is cancelled.
ClientGone(c) ==
    /\ conns[c].state \notin {"idle", "closed"} /\ conns[c].h = "loop"
    /\ ~conns[c].done
    /\ conns' = [conns EXCEPT ![c].done = TRUE]
    /\ UNCHANGED <<wvars, fn, calls, sentOn, allCount>>

\* case <-ctx.Done(): return, in the handler's loop (or the receive of nil
\* from progressChan, which the goroutine closed on ctx.Done()).
HDone(c) ==
    /\ conns[c].state \in {"streaming", "closed"} /\ conns[c].h = "loop"
    /\ conns[c].done
    /\ conns' = [conns EXCEPT ![c].h = "returned"]
    /\ UNCHANGED <<wvars, fn, calls, sentOn, allCount>>

\* The steps of the goroutine of connection c, and those of its handler up
\* to its return on ctx.Done().
Forward(c) == GTake(c) \/ GDone(c)
Serve(c) == SendSnapshot(c) \/ Subscribe(c) \/ HReceive(c)

\* The job whose progress the clients of /progress/<id> follow.
WatchedJob == Min(ProgressJobs)

\* Events are published for every job by several goroutines while clients
\* open /progress/<WatchedJob> and /progress and go away; Redis answers.
NextProgress ==
    \/ \E p \in Publishers, j \in ProgressJobs, ev \in ProgressEvents : PublishEvent(p, j, ev)
    \/ \E p \in Publishers : Publish(p, FALSE)
    \/ \E c \in ConnIds : Connect(c, "job", WatchedJob)
    \/ \E c \in ConnIds : Connect(c, "all", 0)
    \/ \E c \in ConnIds : ClientGone(c)
    \/ \E c \in ConnIds : Forward(c)
    \/ \E c \in ConnIds : Serve(c)
    \/ \E c \in ConnIds : HDone(c)

SpecProgress == Init /\ [][NextProgress]_vars

\* ------------------------------------------------- the progress snapshot
\* The PublishProgress calls alone: any of the three commands may fail, which
\* ends the call, and the key of a job may expire.
NextSnapshot ==
    \/ \E p \in Publishers, j \in ProgressJobs, ev \in ProgressEvents : PublishEvent(p, j, ev)
    \/ \E p \in Publishers : Publish(p, TRUE)
    \/ \E j \in ProgressJobs : ExpireSnapshot(j)

SpecSnapshot == Init /\ [][NextSnapshot]_vars

\* ------------------------------------------- watching one run of a job
\* The worker RunWorker takes the job from the stream and runs the handler
\* on it, with every outcome of its calls (a failure of ffprobe, ffmpeg, a
\* store or a Redis command, a panic after which the process is started
\* again), while clients open /progress/<id> of the job.  No client
\* disconnects and the snapshot does not expire.
RunWorker == Min(Workers)

\* The steps of the worker process.
WatchedRun ==
    \/ ListPending(RunWorker)
    \/ ClaimNext(RunWorker)
    \/ ReadNext(RunWorker)
    \/ ReadReply(RunWorker)
    \/ Decode(RunWorker)
    \/ Handler(RunWorker, TRUE)
    \/ Finish(RunWorker)

\* The client that follows the job.
Watcher == Min(ConnIds)

\* The client opens /progress/<id> while the handler is running on the job.
Watch(c) ==
    /\ pc[RunWorker] \in HandlerPcs
    /\ Connect(c, "job", JobOf(cur[RunWorker]))

NextWatch ==
    \/ Submit(FALSE)
    \/ Start(RunWorker)
    \/ WatchedRun
    \/ Watch(Watcher)
    \/ Forward(Watcher)
    \/ Serve(Watcher)

\* The worker process is started and scheduled, as are the goroutines of
\* the API server; Redis answers them.
SpecWatch ==
    /\ Init
    /\ [][NextWatch]_vars
    /\ WF_vars(Start(RunWorker))
    /\ WF_vars(WatchedRun)
    /\ WF_vars(Forward(Watcher)) /\ WF_vars(Serve(Watcher))

\* ------------------------------------- the goroutine of a subscription
\* SubscribeToProgress starts a goroutine that forwards the messages of the
\* topic subscription to the unbuffered channel progressChan, which the
\* handler of /progress/<id> reads; events are published on the job's topic
\* and clients come and go.
NextForward ==
    \/ \E p \in Publishers, ev \in ProgressEvents : PublishEvent(p, WatchedJob, ev)
    \/ \E p \in Publishers : Publish(p, FALSE)
    \/ \E c \in ConnIds : Connect(c, "job", WatchedJob)
    \/ \E c \in ConnIds : ClientGone(c)
    \/ \E c \in ConnIds : Forward(c)
    \/ \E c \in ConnIds : Serve(c)
    \/ \E c \in ConnIds : HDone(c)

\* The goroutines are scheduled and Redis answers.
SpecForward ==
    /\ Init
    /\ [][NextForward]_vars
    /\ \A p \in Publishers : WF_vars(Publish(p, FALSE))
    /\ \A c \in ConnIds : WF_vars(Forward(c)) /\ WF_vars(Serve(c)) /\ WF_vars(HDone(c))

\* ------------------------------------------------------ initialisation
\* A process starts and calls InitRedis: the API server (who = "api") or the
\* worker (who = "worker"), whose main exits when InitRedis returns an error
\* and goes on to ConsumeJobs when it returns nil.  fn keeps the outcome and
\* the reply of the last call, the number of calls of the API server, how
\* many entries the stream held when the group was created (pre), whether
\* entries were pending at the call, and whether the worker's InitRedis has
\* returned nil (ready).
WorkerReady == IF fn = NoCall THEN FALSE ELSE fn.ready

CallInitRedis(who, out) ==
    /\ IF who = "api"
       THEN (IF fn = NoCall THEN TRUE ELSE fn.n < MaxInits)
       ELSE ~WorkerReady /\ ~Up(RunWorker)
    /\ out # "ok" => faults < MaxFaults
    /\ faults' = IF out = "ok" THEN faults ELSE faults + 1
    /\ LET r == InitRedis(queue, out)
           n == IF fn = NoCall THEN 0 ELSE fn.n
       IN /\ queue' = r.q
          /\ fn' = [f |-> "InitRedis", out |-> out,
                    n |-> IF who = "api" THEN n + 1 ELSE n,
                    reply |-> r.reply, err |-> r.err,
                    pre |-> IF queue.group \/ ~r.q.group
                            THEN (IF fn = NoCall THEN 0 ELSE fn.pre)
                            ELSE Len(queue.stream),
                    pending |-> PendingIds(queue) # {},
                    ready |-> WorkerReady \/ (who = "worker" /\ r.err = NoError)]
    /\ UNCHANGED <<videos, rows, snapshot, pc, phase, cancelled, plist, cur, idx, hres, starts,
                   dupAck, terminalSeen, invoked, manifest, source, batch, posting, pvars>>

\* Jobs are submitted at any time; the worker enters ConsumeJobs after its
\* InitRedis has returned nil, with the group or without it.
NextInitRedis ==
    \/ Submit(FALSE)
    \/ MalformedAdd
    \/ \E out \in InitOutcomes : CallInitRedis("api", out)
    \/ \E out \in InitOutcomes : CallInitRedis("worker", out)
    \/ WorkerReady /\ Start(RunWorker)
    \/ Step(RunWorker)

\* The processes are started (again, after an exit) and call InitRedis, the
\* worker takes its steps, and Redis fails MaxFaults times at most.
SpecInitRedis ==
    /\ InitNoGroup
    /\ [][NextInitRedis]_vars
    /\ WF_vars(\E out \in InitOutcomes : CallInitRedis("api", out))
    /\ WF_vars(\E out \in InitOutcomes : CallInitRedis("worker", out))
    /\ WF_vars(WorkerReady /\ Start(RunWorker))
    /\ WF_vars(Step(RunWorker))

\* ------------------------------------------------ the per-job deadline
\* ctx, cancel := context.WithTimeout(context.Background(), 2*time.Hour): the
\* two hours pass while the handler is running.  Every call that takes the
\* ctx fails from then on: ffprobe and ffmpeg are killed
\* (exec.CommandContext), PutObject, Create and Updates return the ctx's
\* error.  PublishProgress takes context.Background() and is not affected.
Deadline(w) ==
    /\ pc[w] \in HandlerPcs
    /\ hres[w] = ""
    /\ hres' = [hres EXCEPT ![w] = "late"]
    /\ UNCHANGED <<aux, manifest, terminalSeen, invoked, queue, videos, rows, snapshot, phase,
                   cancelled, plist, cur, idx, pc, starts, faults, dupAck>>

\* The workers take their steps, without signals and crashes, and the
\* deadline of a running handler may pass.
NextDeadline ==
    \/ Submit(FALSE)
    \/ \E w \in Workers : Start(w)
    \/ \E w \in Workers : Step(w)
    \/ \E w \in Workers : Deadline(w)

SpecDeadline == Init /\ [][NextDeadline]_vars

\* ====================================================== checked properties
\* The entries appended so far.
Appended == 1..Len(queue.stream)

\* A worker is executing the processing state machine (the handler).
InHandler(w) == pc[w] \in HandlerPcs

\* A worker has a message in processMessage: decoding it, running the
\* handler on it or about to acknowledge it.
InProcessMessage(w) == pc[w] \in HandlerPcs \cup {"parse", "ack"}

\* Worker w takes a step of its own that is not the process vanishing.
Steps(w) == pc[w] # "down" /\ pc'[w] # "down" /\
            (pc'[w] # pc[w] \/ plist'[w] # plist[w] \/ idx'[w] # idx[w] \/ calls'[w] # calls[w])

\* A worker is in a run of the state machine, or has just ended one with
\* success and not yet acknowledged it.
Running(w) == InHandler(w) \/ (pc[w] = "ack" /\ hres[w] = "ok")

\* C1: at any time at most one worker is executing the processing state
\* machine for a given queue entry, so no two workers run the same entry at
\* once and no entry is completed by two independent successful runs.
C1_Exclusivity ==
    \A w1, w2 \in Workers :
        (w1 # w2 /\ Running(w1) /\ Running(w2)) => cur[w1] # cur[w2]

\* 0: unseen, 1: pending, 2: acknowledged.
Rank(q, id) == IF Unseen(q, id) THEN 0 ELSE IF Pending(q, id) THEN 1 ELSE 2

\* Exactly one of: unseen, pending under exactly one consumer, acknowledged.
OneEntryState(q, id) ==
    /\ Cardinality({k \in 1..3 : <<Unseen(q, id), Pending(q, id), Acknowledged(q, id)>>[k]}) = 1
    /\ Pending(q, id) => Cardinality(Owners(q, id)) = 1

C2_StateInv ==
    /\ queue.last <= Len(queue.stream)
    /\ PendingIds(queue) \subseteq Appended
    /\ \A id \in Appended : OneEntryState(queue, id)

C2_Moves ==
    \A id \in Appended :
        /\ Rank(queue', id) >= Rank(queue, id)
        /\ Rank(queue', id) # Rank(queue, id) =>
              \E w \in Workers :
                 \/ /\ Rank(queue, id) = 0 /\ Rank(queue', id) = 1
                    /\ pc[w] = "reading" /\ pc'[w] = "parse" /\ cur'[w] = id
                    /\ Owners(queue', id) = {w}
                 \/ /\ Rank(queue, id) = 1 /\ Rank(queue', id) = 2
                    /\ pc[w] \in {"parse", "ack"} /\ cur[w] = id /\ Steps(w)
        /\ (Rank(queue, id) = 1 /\ Rank(queue', id) = 1
                /\ Owners(queue', id) # Owners(queue, id)) =>
              \E w \in Workers :
                 /\ pc[w] = "claim" /\ Steps(w) /\ Head(plist[w]) = id
                 /\ Owners(queue', id) = {w}

\* C2: every appended entry is, for the group, in exactly one of the states
\* unseen, pending under exactly one consumer, acknowledged; a group read
\* moves unseen to pending, a claim only changes the owner of a pending
\* entry, an ack moves pending to acknowledged, and nothing moves backwards.
C2_EntryStates == [](C2_StateInv) /\ [][C2_Moves]_vars

\* C2 witness: one entry acknowledged while another, taken over by a claim
\* from the consumer it was delivered to, is pending under its new owner.
C2_Witness ==
    \E a, b \in Appended : \E w \in Workers :
        /\ Acknowledged(queue, a)
        /\ Owners(queue, b) = {w}
        /\ phase[w] = "RECOVERING" /\ cur[w] = b /\ starts[w] = 1

\* C3: an asset has at most one Rendition row per rendition label, whatever
\* deliveries, failures, crashes and redeliveries happened.
C3_NoDuplicateRenditions ==
    \A j \in Jobs : \A l \in Labels : rows[j][l] <= 1

\* C4, the four steps of crash recovery.
C4_CrashKeepsPending ==
    \A w \in Workers : (pc[w] # "down" /\ pc'[w] = "down") => queue' = queue

C4_ListsAllPending ==
    \A w \in Workers :
        (pc[w] = "pending" /\ Steps(w) /\ ~cancelled[w]) =>
            /\ pc'[w] = "claim"
            /\ \A id \in PendingIds(queue) : id \in Range(plist'[w])

C4_ClaimsAndDispatches ==
    \A w \in Workers :
        (pc[w] = "claim" /\ Steps(w) /\ ~cancelled[w] /\ plist[w] # <<>>
            /\ Pending(queue, Head(plist[w]))) =>
            /\ Owners(queue', Head(plist[w])) = {w}
            /\ cur'[w] = Head(plist[w])
            /\ pc'[w] = "parse"

C4_ProcessesAgain ==
    \A w \in Workers :
        (pc[w] = "parse" /\ Steps(w) /\ ~DecodeFails(queue.stream[cur[w]])) =>
            pc'[w] = "h_start" /\ cur'[w] = cur[w]

C4_PassIsWhole ==
    \A w \in Workers : (Up(w) /\ phase[w] = "CONSUMING") => plist[w] = <<>>

\* C4: an entry pending under a worker that vanished stays in the group's
\* pending list; the next recovery pass of any worker (one the shutdown
\* signal does not interrupt) lists it, claims it and hands its job to the
\* handler again, before that worker reads new entries.
C4_CrashRecovery ==
    /\ [](C4_PassIsWhole)
    /\ [][C4_CrashKeepsPending /\ C4_ListsAllPending /\ C4_ClaimsAndDispatches
            /\ C4_ProcessesAgain]_vars

\* C4 witness: worker c is gone, and worker w, in the recovery pass of its
\* first run, owns an entry it did not read itself and is running its job.
C4_Witness ==
    \E w, c \in Workers : \E id \in Appended :
        /\ c # w /\ pc[c] = "down" /\ starts[c] = 1 /\ starts[w] = 1
        /\ phase[w] = "RECOVERING" /\ InHandler(w) /\ cur[w] = id
        /\ Owners(queue, id) = {w}

\* C5: an XAck is issued only after the handler returned success for the
\* entry or its payload failed to decode; after a processing error the
\* worker moves on without an ack and the pending list is as it was.
C5_AckOnlyOnSuccess ==
    [][ /\ \A id \in Appended :
              (Pending(queue, id) /\ ~Pending(queue', id)) =>
                  \E w \in Workers :
                     /\ cur[w] = id /\ Steps(w)
                     /\ \/ pc[w] = "ack" /\ hres[w] = "ok"
                        \/ pc[w] = "parse" /\ DecodeFails(queue.stream[id])
        /\ \A w \in Workers :
              (pc[w] = "ack" /\ hres[w] = "err" /\ Steps(w)) =>
                  /\ queue' = queue
                  /\ pc'[w] \in {"claim", "loop"} ]_vars

\* C5 witness: a worker is back in its read loop, not cancelled, and still
\* owns the entry of a job whose run ended in failed.
C5_Witness ==
    \E w \in Workers : \E id \in Appended :
        /\ pc[w] = "loop" /\ ~cancelled[w] /\ cur[w] = 0
        /\ Owners(queue, id) = {w}
        /\ ~DecodeFails(queue.stream[id])
        /\ videos[JobOf(id)].status = StatusFailed

\* C6: whenever the handler returned success for an entry, the entry has
\* left the pending list when the worker moves on from processMessage (to
\* read or claim another entry, or to stop), also when the shutdown signal
\* arrived while the job was in flight.
C6_SuccessIsAcked ==
    [][\A w \in Workers :
          (pc[w] = "ack" /\ hres[w] = "ok" /\ Steps(w)) => ~Pending(queue', cur[w])]_vars

\* C7: an entry whose payload does not decode is acknowledged by the worker
\* that decoded it, without the handler being invoked, and once it is
\* acknowledged no worker is handed it again.
C7_PoisonDropped ==
    [][ /\ \A w \in Workers :
              (pc[w] = "parse" /\ DecodeFails(queue.stream[cur[w]]) /\ Steps(w)) =>
                  /\ pc'[w] \notin HandlerPcs
                  /\ ~Pending(queue', cur[w])
        /\ \A id \in Appended :
              (DecodeFails(queue.stream[id]) /\ Acknowledged(queue, id)) =>
                  /\ Acknowledged(queue', id)
                  /\ \A w \in Workers : cur'[w] = id => cur[w] = id ]_vars

\* The step of worker w issues an XAck: processMessage after a decode
\* failure, or after the handler returned nil.
IssuesXAck(w) ==
    /\ Steps(w)
    /\ \/ pc[w] = "parse" /\ DecodeFails(queue.stream[cur[w]])
       \/ pc[w] = "ack" /\ hres[w] = "ok"

\* An XAck of the program names the id of a message that a read or a claim
\* handed to the worker, so an id that was delivered.  One that names an id no
\* longer pending (a second XAck of the entry) leaves the queue exactly as it
\* was and, when it is sent, returns 0 and no error.  An acknowledged entry
\* stays acknowledged and is handed to no worker again.
C8_AckSteps ==
    /\ \A w \in Workers :
          IssuesXAck(w) =>
              LET r == XAckCtx(queue, w, cur[w])
              IN /\ queue' = r.q
                 /\ Delivered(queue, cur[w])
                 /\ ~Pending(queue, cur[w]) => queue' = queue
                 /\ (~Pending(queue, cur[w]) /\ ~cancelled[w]) => (r.err = NoError /\ r.n = 0)
                 /\ ~cancelled[w] => (r.err = NoError /\ Acknowledged(queue', cur[w]))
    /\ \A id \in Appended :
          Acknowledged(queue, id) =>
              /\ Acknowledged(queue', id)
              /\ \A w \in Workers : cur'[w] = id => cur[w] = id

StatusOf(j) == videos[j].status

\* C9 as claimed: the status only moves waiting -> processing -> completed or
\* failed, and a completed or failed status never changes again.
C9_StatusOrder ==
    [][\A j \in Jobs :
          StatusOf(j)' # StatusOf(j) =>
              <<StatusOf(j), StatusOf(j)'>> \in
                  { <<NoRow, StatusWaiting>>,
                    <<StatusWaiting, StatusProcessing>>,
                    <<StatusProcessing, StatusCompleted>>,
                    <<StatusProcessing, StatusFailed>> }]_vars

\* C9 amended: the status never returns to waiting and changes only by a
\* step of a run of the asset's job: to processing where the run starts, to
\* failed where the run ends with an error, to completed where it ends with
\* success; the run of a redelivered entry starts from any status.
C9_StatusByRun ==
    [][\A j \in Jobs :
          StatusOf(j)' # StatusOf(j) =>
              \/ StatusOf(j) = NoRow /\ StatusOf(j)' = StatusWaiting
              \/ \E w \in Workers :
                    /\ cur[w] \in Appended /\ JobOf(cur[w]) = j /\ Steps(w)
                    /\ StatusOf(j) # NoRow
                    /\ \/ pc[w] = "h_start" /\ StatusOf(j)' = StatusProcessing
                       \/ /\ pc[w] \in {"h_probe_failed", "h_rend_failed", "h_master_failed"}
                          /\ StatusOf(j)' = StatusFailed
                       \/ /\ pc[w] = "h_complete"
                          /\ StatusOf(j)' = StatusCompleted ]_vars

\* C9 witness: the run of a redelivered entry has put an asset that was
\* failed, or completed, back to processing.
C9_Witness ==
    \E j \in Jobs :
        /\ StatusOf(j) = StatusProcessing
        /\ videos[j].err # NoError \/ videos[j].completedAt

\* C10: in every state of an asset record, error_message is set if and only
\* if status = failed.
C10_ErrorIffFailed ==
    \A j \in Jobs :
        StatusOf(j) # NoRow => (videos[j].err # NoError <=> StatusOf(j) = StatusFailed)

\* C11: in every state of an asset record, completed_at is set if and only if
\* status = completed, also after the job's entry is delivered again.
C11_CompletedAtIffCompleted ==
    \A j \in Jobs :
        StatusOf(j) # NoRow => (videos[j].completedAt <=> StatusOf(j) = StatusCompleted)

\* C13: for each job the percent values of the events published on its topic
\* are non-decreasing from the first event up to the first terminal
\* (completed or failed) event.
C13_PercentMonotone ==
    [][\A j \in Jobs :
          (~terminalSeen[j] /\ sentOn[j] # NoEvent /\ sentOn'[j] # sentOn[j]) =>
              sentOn'[j].ev.percent >= sentOn[j].ev.percent]_vars

\* C20 as claimed: for every entry the handler is invoked exactly once before
\* the entry is acknowledged: never a second time, and an acknowledged entry
\* of a job was handled.
C20_ExactlyOnce ==
    \A id \in Appended :
        /\ invoked[id] <= 1
        /\ (Acknowledged(queue, id) /\ ~DecodeFails(queue.stream[id])) => invoked[id] = 1

\* C20 amended: the handler is invoked at least once before the entry of a
\* job is acknowledged, and the acknowledgement is issued by a worker whose
\* own invocation for that entry returned success; the number of invocations
\* before it is not limited to one.
C20_AtLeastOnce ==
    /\ [](\A id \in Appended :
            (Acknowledged(queue, id) /\ ~DecodeFails(queue.stream[id])) => invoked[id] >= 1)
    /\ [][\A id \in Appended :
            (Pending(queue, id) /\ ~Pending(queue', id) /\ ~DecodeFails(queue.stream[id])) =>
                \E w \in Workers : cur[w] = id /\ pc[w] = "ack" /\ hres[w] = "ok" /\ Steps(w)]_vars

\* C20 witness: an entry is acknowledged after its handler was invoked a
\* second time, the first run having ended in failed.
C20_Witness ==
    \E id \in Appended :
        /\ Acknowledged(queue, id) /\ ~DecodeFails(queue.stream[id])
        /\ invoked[id] = 2
        /\ videos[JobOf(id)].err # NoError
        /\ StatusOf(JobOf(id)) = StatusCompleted

\* C15: once a completed event has been published for a job, GetProgress of
\* the job returns an event with status completed from then on (the key's
\* expiry aside), whoever asks.
C15_CompletedStaysVisible ==
    [][\A j \in Jobs :
          GetProgress(snapshot, j).status = StatusCompleted =>
              GetProgress(snapshot', j).status = StatusCompleted]_vars

\* The ladder the specification prescribes for source height h: the members
\* of H not above h, which form a suffix of H; <<h>> when there is none.
H == <<2160, 1440, 1080, 720, 480, 360, 240, 144>>
SelectLadder(h) ==
    LET k == Cardinality({i \in 1..Len(H) : H[i] > h})
    IN IF k = Len(H) THEN <<h>> ELSE SubSeq(H, k + 1, Len(H))

\* C12: for every source height h >= 1 the selected ladder is the contiguous
\* suffix of H whose members are <= h, in descending order, the single
\* rendition <<h>> when h < 144, and no selected height exceeds h.
C12_LadderSelection ==
    fn.f \in {"getTargetResolutions", "filterRenditions"} =>
        /\ fn.out = SelectLadder(fn.h)
        /\ fn.h < 144 <=> fn.out = <<fn.h>> /\ fn.h \notin Range(H)
        /\ \A i \in 1..Len(fn.out) : fn.out[i] <= fn.h
        /\ \A i, k \in 1..Len(fn.out) : i < k => fn.out[i] > fn.out[k]
        /\ \A i \in 1..Len(H) : H[i] <= fn.h => H[i] \in Range(fn.out)
        /\ fn.h = 2160 => fn.out = H
        /\ fn.h = 900 => fn.out = <<720, 480, 360, 240, 144>>
        /\ fn.h = 100 => fn.out = <<100>>

\* C12 witness: getTargetResolutions was called on a source of 900 lines and
\* returned five rungs.
C12_Witness ==
    fn.f = "getTargetResolutions" /\ fn.h = 900 /\ Len(fn.out) = 5

IsManifestCall == fn.f = "generateAndUploadMasterPlaylist"

\* C14: for the renditions of every ladder a run produces, the manifest
\* lists them all in descending order of bandwidth estimate, ties broken by
\* descending height; for a source of 1080 lines: 1080, 720, 480, 360, 240,
\* 144.
C14_ManifestOrder ==
    IsManifestCall =>
        /\ Range(fn.out) = Range(fn.in) /\ Len(fn.out) = Len(fn.in)
        /\ \A i, k \in 1..Len(fn.out) :
              i < k => \/ estimateBandwidth(fn.out[i]) > estimateBandwidth(fn.out[k])
                       \/ /\ estimateBandwidth(fn.out[i]) = estimateBandwidth(fn.out[k])
                          /\ fn.out[i] > fn.out[k]
        /\ fn.source = ScenarioHeight => fn.out = <<1080, 720, 480, 360, 240, 144>>

\* C14 witness: the six renditions of a source of 1080 lines, listed from
\* 1080 down to 144.
C14_Witness ==
    /\ IsManifestCall /\ fn.source = ScenarioHeight /\ Len(fn.in) > 1
    /\ fn.out = <<1080, 720, 480, 360, 240, 144>>

\* No PublishProgress call for job j is between its first and last command.
NoCallInFlight(j) == \A p \in Publishers : calls[p] # NoPublish => calls[p].job # j

\* C16: GetProgress of a job returns exactly the event of the most recent
\* PublishProgress call for the job, the event last sent on its topic (the
\* key's expiry aside), and not found when none was ever published for it.
C16_SnapshotIsLastPublished ==
    \A j \in ProgressJobs :
        /\ sentOn[j] = NoEvent => GetProgress(snapshot, j) = NotFound
        /\ (sentOn[j] # NoEvent /\ NoCallInFlight(j) /\ snapshot[j] # NoSnapshot) =>
              GetProgress(snapshot, j) = sentOn[j].ev

\* The events a connection got from its subscription, written to the client,
\* held by the forwarding goroutine or still waiting, in the order they
\* arrived.
Live(c) == SelectSeq(conns[c].sent, LAMBDA m : m.src = "live") \o
           (IF conns[c].held = NoEvent THEN <<>>
            ELSE <<[src |-> "live", n |-> conns[c].held.n, job |-> conns[c].held.job,
                    ev |-> conns[c].held.ev]>>) \o
           [i \in 1..Len(conns[c].inbox) |->
               [src |-> "live", n |-> conns[c].inbox[i].n, job |-> conns[c].inbox[i].job,
                ev |-> conns[c].inbox[i].ev]]

\* C17: a single-job subscription gets only events of its job published
\* after it was established, each at most once and in publish order (while
\* it is open: all of them); an all-jobs subscription gets the events of
\* every job published after it was established, likewise.
C17_SubscriptionStream ==
    \A c \in ConnIds :
        conns[c].kind # "none" =>
            LET live == Live(c)
                last == IF conns[c].kind = "job" THEN sentOn[conns[c].job].n ELSE allCount
            IN /\ \A i \in 1..Len(live) : live[i].n > conns[c].since /\ live[i].n <= last
               /\ \A i, k \in 1..Len(live) : i < k => live[i].n < live[k].n
               /\ conns[c].kind = "job" =>
                     \A i \in 1..Len(live) :
                        /\ live[i].job = conns[c].job
                        /\ live[i].n = last => live[i].ev = sentOn[conns[c].job].ev
               /\ conns[c].state = "streaming" =>
                     {live[i].n : i \in 1..Len(live)} = (conns[c].since + 1)..last

\* C17 witness: a single-job connection that subscribed after the job's
\* first event has been sent the second one only, while an all-jobs
\* connection has been sent both.
C17_Witness ==
    \E c, d \in ConnIds :
        /\ conns[c].kind = "job" /\ conns[c].since = 1
        /\ \E i \in 1..Len(conns[c].sent) :
              conns[c].sent[i].src = "live" /\ conns[c].sent[i].n = 2
        /\ conns[d].kind = "all" /\ Len(conns[d].sent) = 2

\* The last event written to a connection's client is completed or failed.
SawTerminal(c) ==
    /\ conns[c].kind # "none"
    /\ conns[c].sent # <<>>
    /\ Terminal(conns[c].sent[Len(conns[c].sent)].ev.status)

\* C18: a single-job connection is closed once it has written a completed or
\* failed event to its client, whether the event came from the snapshot or
\* from the subscription, and when the client disconnects; an all-jobs
\* connection is closed by the client's disconnect only.
C18_TerminatesOnTerminal ==
    /\ [](\A c \in ConnIds :
            (conns[c].kind = "job" /\ SawTerminal(c)) => conns[c].h = "returned")
    /\ [][\A c \in ConnIds :
            (conns[c].kind = "all" /\ conns[c].h = "loop" /\ conns'[c].h = "returned") =>
                conns[c].done /\ conns'[c].sent = conns[c].sent]_vars

\* C19: with a worker that stays running, no crashes, no store errors and
\* fair scheduling, every entry appended to the stream is eventually
\* delivered to a worker of the group, and the asset of the job it carries
\* eventually has status completed or failed.
C19_EventuallyProcessed ==
    \A id \in EntryIds :
        (id <= Len(queue.stream)) ~>
            /\ Delivered(queue, id)
            /\ ~DecodeFails(queue.stream[id]) => Terminal(videos[JobOf(id)].status)

\* C19 witness: an entry carrying a job was appended and delivered, the
\* handler ran on it and the job's asset is completed or failed.
C19_Witness ==
    \E id \in 1..Len(queue.stream) :
        /\ ~DecodeFails(queue.stream[id])
        /\ Delivered(queue, id)
        /\ invoked[id] >= 1
        /\ Terminal(videos[JobOf(id)].status)
        /\ \A w \in Workers : cur[w] # id

\* ----------------------------------------------------- end-to-end scenario
\* The number of video_resolutions rows of a job.
RECURSIVE RowSum(_, _)
RowSum(j, ls) == IF ls = {} THEN 0
                 ELSE LET l == CHOOSE x \in ls : TRUE
                      IN rows[j][l] + RowSum(j, ls \ {l})
RowCount(j) == RowSum(j, Labels)

\* Nothing has failed, no worker was signalled or killed, and no entry was
\* handed to the handler a second time.
FirstDelivery == faults = 0 /\ \A id \in EntryIds : invoked[id] <= 1

\* The status changes of the scenario.
ScenarioSteps == {<<NoRow, StatusWaiting>>, <<StatusWaiting, StatusProcessing>>,
                  <<StatusProcessing, StatusCompleted>>}

\* At completed the asset of the scenario has completed_at, n rows and a
\* manifest that lists the ladder of a 1080 source from the top.
ScenarioAtCompleted(n) ==
    \A j \in Jobs :
        (FirstDelivery /\ videos[j].status = StatusCompleted) =>
            /\ videos[j].completedAt
            /\ RowCount(j) = n
            /\ manifest[j] = <<1080, 720, 480, 360, 240, 144>>

\* The run of the scenario changes the status along waiting, processing,
\* completed.
ScenarioStatusStep ==
    \A j \in Jobs :
        (FirstDelivery' /\ videos'[j].status # videos[j].status) =>
            <<videos[j].status, videos'[j].status>> \in ScenarioSteps

\* C21 as stated: for a source of 1080 lines whose every step succeeds on
\* first delivery the status goes waiting, processing, completed with
\* completed_at set, 8 rendition rows exist and the manifest lists
\* 1080, 720, 480, 360, 240, 144 in that order.
C21_EndToEndEightRows == [](ScenarioAtCompleted(8)) /\ [][ScenarioStatusStep]_vars

\* One row for each of 1080, 720, 480, 360, 240 and 144, none for another
\* height.
ScenarioRows ==
    \A j \in Jobs :
        (FirstDelivery /\ videos[j].status = StatusCompleted) =>
            \A l \in Labels :
                rows[j][l] = IF l \in {1080, 720, 480, 360, 240, 144} THEN 1 ELSE 0

\* C21 amended: the same with 6 rendition rows, one for each height of the
\* manifest (2160 and 1440 are both above the source).
C21_EndToEndSixRows ==
    [](ScenarioAtCompleted(6) /\ ScenarioRows) /\ [][ScenarioStatusStep]_vars

\* C21 witness: the scenario's job is completed after one fault-free run
\* that was acknowledged.
C21_Witness ==
    \E id \in 1..Len(queue.stream) :
        /\ ~DecodeFails(queue.stream[id])
        /\ FirstDelivery
        /\ invoked[id] = 1
        /\ source[JobOf(id)] = ScenarioHeight
        /\ videos[JobOf(id)].status = StatusCompleted
        /\ Acknowledged(queue, id)

\* ------------------------------------------------------------ worker phases
PhaseRank == [STARTUP |-> 0, RECOVERING |-> 1, CONSUMING |-> 2, STOPPED |-> 3]

\* The step starts a worker process (anew).
ProcessStarts(w) == ~Up(w) /\ pc'[w] = "pending"

\* The step is the group read of worker w that delivers a new entry.
ReadsNew(w) == \E id \in EntryIds : Unseen(queue, id) /\ ~Unseen(queue', id) /\ id \in queue'.pel[w]

\* processMessage returns in this step: after the XAck of an undecodable
\* message or after the handler returned.
ProcessMessageReturns(w) == pc[w] \in {"parse", "ack"} /\ pc'[w] \in {"claim", "loop"}

\* C22: a worker process goes through its phases in the order STARTUP,
\* RECOVERING, CONSUMING, STOPPED; it reads new entries from the group only
\* in CONSUMING, after the loop over its pending list has ended; during
\* RECOVERING it claims one entry at a time, the next one only after
\* processMessage has returned for the one before.
C22_PhaseOrder ==
    /\ [](\A w \in Workers :
            /\ pc[w] \in {"loop", "reading"} =>
                  phase[w] = "CONSUMING" /\ plist[w] = <<>> /\ cur[w] = 0
            /\ pc[w] \in {"pending", "claim"} => phase[w] = "RECOVERING" /\ cur[w] = 0
            /\ phase[w] = "STARTUP" => pc[w] = "down"
            /\ phase[w] = "STOPPED" <=> (pc[w] \in {"down", "stopped"} /\ starts[w] > 0))
    /\ [][\A w \in Workers :
            /\ phase'[w] # phase[w] =>
                  \/ PhaseRank[phase'[w]] > PhaseRank[phase[w]]
                  \/ ProcessStarts(w) /\ phase'[w] = "RECOVERING"
            /\ ReadsNew(w) => pc[w] = "reading" /\ phase[w] = "CONSUMING"
            /\ (phase[w] = "RECOVERING" /\ phase'[w] = "CONSUMING") =>
                  plist[w] = <<>> /\ cur[w] = 0
            /\ (phase[w] = "RECOVERING" /\ cur'[w] # cur[w] /\ Up(w)') =>
                  \/ cur[w] = 0 /\ pc[w] = "claim" /\ cur'[w] = Head(plist[w])
                  \/ cur'[w] = 0 /\ ProcessMessageReturns(w)]_vars

\* C22 witness: a worker that recovered an entry (run for the second time,
\* failed again and still pending under it) is in CONSUMING and has read the
\* next entry.
C22_Witness ==
    \E w \in Workers :
        /\ phase[w] = "CONSUMING" /\ pc[w] = "parse"
        /\ \E id \in EntryIds : id # cur[w] /\ invoked[id] = 2 /\ id \in queue.pel[w]

\* A recovery pass was run on a group with pending entries.
IsRecoveryCall == fn # NoCall /\ fn.f = "processPendingMessages"

\* C23: the recovery pass of a starting worker claims every entry that is
\* pending in the group when it lists them, however many there are and
\* whichever consumer owns them.
C23_RecoversAllPending == IsRecoveryCall => fn.claimed = fn.pending

\* No worker has the entry in hand (in processMessage).
InNoHand(id) == \A w \in Workers : cur[w] # id

\* C24: an entry left unacknowledged (by a processing failure, among other
\* causes) is never delivered again by the group read of a worker in
\* CONSUMING: a worker takes in hand an entry that was delivered before only
\* by the XClaim of its startup recovery pass, and until then the entry
\* stays pending.
C24_RedeliveryOnlyByRecovery ==
    [][\A id \in EntryIds :
          /\ (Pending(queue, id) /\ InNoHand(id)) => Pending(queue', id)
          /\ \A w \in Workers :
                (cur'[w] = id /\ cur[w] # id) =>
                    \/ Unseen(queue, id) /\ pc[w] = "reading" /\ phase[w] = "CONSUMING"
                    \/ /\ Pending(queue, id)
                       /\ pc[w] = "claim" /\ phase[w] = "RECOVERING"
                       /\ plist[w] # <<>> /\ Head(plist[w]) = id]_vars

\* C24 witness: the run of a job failed and left its entry pending in no
\* worker's hand, and a worker has since read and acknowledged a later entry
\* and is back at its group read.
C24_Witness ==
    \E id \in 1..Len(queue.stream) :
        /\ ~DecodeFails(queue.stream[id])
        /\ Pending(queue, id) /\ InNoHand(id)
        /\ videos[JobOf(id)].status = StatusFailed
        /\ \E w \in Workers :
              /\ id \in queue.pel[w] /\ pc[w] = "loop" /\ ~cancelled[w]
              /\ \E later \in EntryIds : later > id /\ Acknowledged(queue, later)

\* The handler is running for worker w.
HandlerRunning(w) == pc[w] \in HandlerPcs

\* C25: after the shutdown signal the worker eventually reaches STOPPED; the
\* handler that is running at the signal, or is entered for a message
\* already in hand, is changed in nothing by the signal and is left only by
\* its return (so it runs to its end before the worker stops); a read is
\* sent only after a ctx.Done() test that found the ctx not cancelled, a
\* worker that finds it cancelled returns there, and a cancelled worker
\* takes a new entry in hand only as the reply to a read it had sent before;
\* and ConsumeJobs returns only from its loop's ctx.Done() branch, with
\* ctx.Err().
C25_CooperativeShutdown ==
    /\ \A w \in Workers : cancelled[w] ~> (pc[w] = "stopped" /\ phase[w] = "STOPPED")
    /\ [][\A w \in Workers :
            /\ (cancelled'[w] /\ ~cancelled[w]) =>
                  /\ pc'[w] = pc[w] /\ cur'[w] = cur[w] /\ idx'[w] = idx[w]
                  /\ hres'[w] = hres[w] /\ videos' = videos /\ rows' = rows
                  /\ queue' = queue
            /\ (cancelled[w] /\ HandlerRunning(w) /\ pc'[w] # pc[w]) =>
                  HandlerRunning(w)' \/ pc'[w] = "ack"
            /\ (pc'[w] = "reading" /\ pc[w] # "reading") => (~cancelled[w] /\ pc[w] = "loop")
            /\ (cancelled[w] /\ pc[w] = "loop" /\ Steps(w)) => pc'[w] = "stopped"
            /\ (cancelled[w] /\ pc[w] # "reading" /\ Up(w)') => cur'[w] \in {cur[w], 0}
            /\ (pc[w] = "stopped" /\ pc'[w] = "stopped") => (cur'[w] = 0 /\ queue'.pel[w] \subseteq queue.pel[w])
            /\ (pc'[w] = "stopped" /\ pc[w] # "stopped") => (cancelled[w] /\ pc[w] = "loop")]_vars

\* C25 witness: a worker was signalled while a job was in flight, ran the
\* job to its end (the asset is completed, and the entry is still pending
\* under the worker, its XAck having been issued on the cancelled ctx) and
\* has stopped.
C25_Witness ==
    \E w \in Workers :
        /\ pc[w] = "stopped" /\ phase[w] = "STOPPED" /\ cancelled[w]
        /\ \E id \in queue.pel[w] :
              ~DecodeFails(queue.stream[id]) /\ videos[JobOf(id)].status = StatusCompleted

\* The step of worker w is the return of a failed external call of the
\* handler at position p (the stores being available, the failure a step
\* spends is that of ffprobe, ffmpeg or the object store).
StepFails(w, p) == pc[w] = p /\ Up(w)' /\ pc'[w] # p /\ faults' > faults

\* processMessage returns after the handler returned an error.
ReturnsAfterError(w) == pc[w] = "ack" /\ hres[w] = "err" /\ Up(w)' /\ pc'[w] # "ack"

\* The handler of worker w is in the PublishProgress call of the failed
\* event that ends a failed run.
PublishingFailed(w) == pc[w] = "publish" /\ calls[w].next = "ret_err"

\* From the update that records the failure to the handler's return: the
\* failed event is sent on the job's topic and stored as its snapshot,
\* nothing else is written, and the handler returns an error.
FailedRunEnds(w) ==
    (PublishingFailed(w) /\ Steps(w)) =>
        LET j == calls[w].job
        IN /\ calls[w].ev.status = StatusFailed
           /\ videos' = videos /\ rows' = rows /\ manifest' = manifest
           /\ calls[w].step = 0 => sentOn'[j].ev = calls[w].ev /\ terminalSeen'[j]
           /\ calls[w].step < 2 => PublishingFailed(w)'
           /\ calls[w].step = 2 =>
                 /\ snapshot'[j] = calls[w].ev
                 /\ pc'[w] = "ack" /\ hres'[w] = "err"

\* C26: when the probe of the source fails, the run selects no ladder and
\* transcodes nothing (no metadata, no rendition row, no manifest), the
\* asset is failed with the probe error, a failed event is published, the
\* handler returns an error and processMessage sends no XAck.
C26_ProbeFailure ==
    [][\A w \in Workers :
          /\ StepFails(w, "h_probe") =>
                /\ pc'[w] = "h_probe_failed"
                /\ videos' = videos /\ rows' = rows /\ manifest' = manifest
          /\ (pc[w] = "h_probe_failed" /\ Steps(w)) =>
                LET j == JobOf(cur[w])
                IN /\ videos'[j].status = StatusFailed /\ videos'[j].err = "probe"
                   /\ videos'[j].height = videos[j].height
                   /\ rows' = rows /\ manifest' = manifest
                   /\ PublishingFailed(w)'
                   /\ calls'[w] = [step |-> 0, job |-> j, next |-> "ret_err",
                                   ev |-> [status |-> StatusFailed, percent |-> 0]]
          /\ FailedRunEnds(w)
          /\ ReturnsAfterError(w) => queue' = queue]_vars

\* C26 witness: the first run of a job failed at the probe: the asset is
\* failed with the probe error, it has no rendition row, and processMessage
\* has returned leaving the entry pending.
C26_Witness ==
    \E id \in 1..Len(queue.stream) :
        /\ ~DecodeFails(queue.stream[id])
        /\ invoked[id] = 1 /\ InNoHand(id) /\ Pending(queue, id)
        /\ videos[JobOf(id)].status = StatusFailed /\ videos[JobOf(id)].err = "probe"
        /\ RowCount(JobOf(id)) = 0
        /\ snapshot[JobOf(id)].status = StatusFailed

\* The ladder of the run worker w is in.
RunLadder(w) == getTargetResolutions(SourceHeight(JobOf(cur[w])))

\* C27: when transcodeToHLS fails for the rendition at index i, the run
\* ends there (the handler returns an error, no later rendition is
\* attempted and no manifest built), the rows created for the renditions
\* below i remain, and the asset is failed with the error of rendition i.
C27_RenditionFailure ==
    /\ [](\A w \in Workers :
            pc[w] = "h_rend" =>
                \A k \in 1..idx[w] : rows[JobOf(cur[w])][RunLadder(w)[k]] >= 1)
    /\ [][\A w \in Workers :
            /\ StepFails(w, "h_rend") =>
                  /\ pc'[w] = "h_rend_failed" /\ idx'[w] = idx[w]
                  /\ videos' = videos /\ rows' = rows /\ manifest' = manifest
            /\ (pc[w] = "h_rend_failed" /\ Steps(w)) =>
                  LET j == JobOf(cur[w])
                  IN /\ idx'[w] = idx[w] /\ rows' = rows /\ manifest' = manifest
                     /\ videos'[j].status = StatusFailed
                     /\ videos'[j].err = TranscodeError(RunLadder(w)[idx[w] + 1])
                     /\ videos'[j].master = videos[j].master
                     /\ PublishingFailed(w)' /\ calls'[w].ev.status = StatusFailed
            /\ (PublishingFailed(w) /\ Steps(w)) =>
                  /\ idx'[w] = idx[w] /\ rows' = rows /\ manifest' = manifest
                  /\ PublishingFailed(w)' \/ (pc'[w] = "ack" /\ hres'[w] = "err")
            /\ ReturnsAfterError(w) =>
                  pc'[w] \in {"claim", "loop"} /\ cur'[w] = 0 /\ rows' = rows]_vars

\* C27 witness: the first run of a job on a 300-line source failed at its
\* second rendition: the row of 240p is there, none of 144p, no manifest,
\* and the asset is failed with the error of 144p.
C27_Witness ==
    \E id \in 1..Len(queue.stream) :
        /\ ~DecodeFails(queue.stream[id])
        /\ invoked[id] = 1 /\ InNoHand(id) /\ Pending(queue, id)
        /\ videos[JobOf(id)].status = StatusFailed
        /\ videos[JobOf(id)].err = TranscodeError(144)
        /\ rows[JobOf(id)][240] = 1 /\ rows[JobOf(id)][144] = 0
        /\ manifest[JobOf(id)] = <<>> /\ ~videos[JobOf(id)].master

\* C28: a run that fails, at the probe, at a rendition or at the master
\* manifest, has published a failed event when the handler returns: the
\* handler returns an error only from the PublishProgress call that has
\* sent the failed event.
C28_FailureIsPublished ==
    [][\A w \in Workers :
          (InHandler(w) /\ pc'[w] = "ack" /\ hres'[w] = "err") =>
              /\ PublishingFailed(w)
              /\ calls[w].step = 2 /\ calls[w].ev.status = StatusFailed
              /\ snapshot'[JobOf(cur[w])].status = StatusFailed]_vars

\* C29: in a run the completed or failed event is the last event the run
\* publishes, and the goroutine forwarding ffmpeg's progress has ended when
\* it is published.
C29_TerminalEventIsLast ==
    [][ /\ (sentOn[BatchJob] # NoEvent /\ Terminal(sentOn[BatchJob].ev.status)) =>
              sentOn'[BatchJob] = sentOn[BatchJob]
        /\ (sentOn'[BatchJob] # sentOn[BatchJob] /\ Terminal(sentOn'[BatchJob].ev.status)) =>
              batch.f \in {"none", "done"} ]_vars

\* C30: when the persisted status of an asset becomes completed, a rendition
\* row exists for every member of its ladder and the location of the master
\* manifest is persisted on the asset, also when writes to the database
\* fail.
C30_CompletedHasRenditions ==
    [][\A j \in Jobs :
          (videos'[j].status = StatusCompleted /\ videos[j].status # StatusCompleted) =>
              /\ \A l \in Range(getTargetResolutions(SourceHeight(j))) : rows'[j][l] >= 1
              /\ videos'[j].master]_vars

\* ------------------------------------------------- acknowledged and completed
\* processMessage acknowledges the entry id after its handler returned nil:
\* the XAck is sent and removes the entry from the pending list.
AckAfterSuccess(w, id) ==
    /\ pc[w] = "ack" /\ hres[w] = "ok" /\ cur[w] = id /\ Steps(w)
    /\ Pending(queue, id) /\ ~Pending(queue', id)

\* The asset row of job j records a completed run.
RecordsCompleted(v) == v.status = StatusCompleted /\ v.completedAt

\* C31: at the moment an entry is acknowledged after a successful run of its
\* job, the persisted status of the asset is completed and completed_at is
\* set, also when writes to the database fail.
C31_AckedMeansCompleted ==
    [][\A w \in Workers : \A id \in Appended :
          AckAfterSuccess(w, id) => RecordsCompleted(videos'[JobOf(id)])]_vars

\* ---------------------------------------------------- run past its deadline
\* The handler of worker w returns from a run whose ctx has expired.
ExpiredRunReturns(w) == InHandler(w) /\ Late(w) /\ pc'[w] = "ack"

\* C32: a run that exceeds the deadline ends as a processing failure: when
\* its handler returns, the persisted status of the asset is failed with an
\* error message, the last published event is failed, and the error returned
\* leaves the entry unacknowledged.
C32_DeadlineIsFailure ==
    [][\A w \in Workers :
          ExpiredRunReturns(w) =>
              LET j == JobOf(cur[w])
              IN /\ videos'[j].status = StatusFailed
                 /\ videos'[j].err # NoError
                 /\ snapshot'[j].status = StatusFailed
                 /\ hres'[w] = "err"]_vars

\* -------------------------------------------------------------- submission
\* The entries of the stream that carry job j.
EntriesOf(q, j) == {id \in 1..Len(q.stream) : parseJob(q.stream[id]) = j}

\* No asset row is in waiting without an entry once the submission is over, a
\* job has at most one entry,
\* and a handler only runs on a job whose asset row exists.
SubmissionInv ==
    /\ \A j \in Jobs :
          (videos[j].status = StatusWaiting /\ j \notin posting) => EntriesOf(queue, j) # {}
    /\ \A j \in Jobs : Cardinality(EntriesOf(queue, j)) <= 1
    /\ \A w \in Workers : InHandler(w) => videos[JobOf(cur[w])].status # NoRow

\* An entry for job j is appended only by the submission that has created
\* j's asset row in status waiting.
SubmissionSteps ==
    \A j \in Jobs :
        EntriesOf(queue', j) # EntriesOf(queue, j) =>
            /\ j \in posting /\ j \notin posting'
            /\ videos[j] = NewVideo
            /\ Cardinality(EntriesOf(queue', j)) = 1

\* C33: submission creates the asset row in status waiting and then appends
\* exactly one entry for it: no row stays in waiting without an entry, no
\* entry is appended for a job whose row was not created, and no worker runs
\* a job whose row does not exist.
C33_SubmissionPairsRowAndEntry == [](SubmissionInv) /\ [][SubmissionSteps]_vars

\* ------------------------------------------------ watching a run to its end
\* The client of connection c has been written a completed or failed event.
GotTerminal(c) ==
    /\ conns[c].kind # "none"
    /\ \E k \in 1..Len(conns[c].sent) : Terminal(conns[c].sent[k].ev.status)

\* C34: a client that opens /progress/<id> while the job is running is
\* eventually written the terminal event, from the snapshot or from the
\* subscription, once a run of the job has published one.
C34_WatcherSeesTerminal ==
    \A c \in ConnIds :
        (conns[c].state # "idle" /\ terminalSeen[conns[c].job]) ~> GotTerminal(c)

\* ------------------------------------------------- end of a subscription
\* The ctx of the subscription of connection c is cancelled.
CtxCancelled(c) == conns[c].kind # "none" /\ conns[c].done

\* The goroutine of the subscription has returned: progressChan and the
\* topic subscription are closed.
StreamClosed(c) == conns[c].kind # "none" /\ conns[c].g = "done" /\ conns[c].state = "closed"

\* C35: after the ctx of a subscription is cancelled, by the client going
\* away or by the handler returning after a terminal event, the forwarding
\* goroutine eventually returns and closes the event stream and the topic
\* subscription.
C35_ForwarderTerminates ==
    \A c \in ConnIds : CtxCancelled(c) ~> StreamClosed(c)

\* --------------------------------------------------------- progress percent
\* floor(a / b) for a >= 0 and b >= 1: the q with q * b <= a < (q + 1) * b.
Floor(a, b) == CHOOSE q \in 0..a : q * b <= a /\ a < (q + 1) * b

\* C36: for a ladder of total >= 1 renditions and 0 <= index < total, the
\* percent published before the rendition at index is
\* 5 + floor(index * 90 / total), lies in 5..94 and does not decrease with
\* the index.
C36_PercentFormula ==
    fn.f = "progressPercent" =>
        /\ fn.out = 5 + Floor(fn.index * 90, fn.total)
        /\ 5 <= fn.out /\ fn.out <= 94
        /\ \A k \in 0..fn.index : progressPercent(k, fn.total) <= fn.out
        /\ fn.index = 0 => fn.out = 5

\* C36 witness: the last rendition of a ladder of eight is announced at
\* 83 %, the last of a ladder of a hundred at 94 %.
C36_Witness ==
    /\ fn.f = "progressPercent"
    /\ \/ fn.total = 8 /\ fn.index = 7 /\ fn.out = 83
       \/ fn.total = MaxTotal /\ fn.index = MaxTotal - 1 /\ fn.out = 94

\* -------------------------------------------------------- bandwidth estimate
\* C37: the bandwidth estimate does not decrease with the height of the
\* rendition, over standard rungs and custom heights alike.
C37_BandwidthMonotone ==
    fn.f = "estimateBandwidth" => fn.out1 <= fn.out2

\* ----------------------------------------------------------- initialisation
\* A call of InitRedis that Redis answers returns nil; when the group exists
\* the stream, the group's delivery position and its pending list stay as
\* they are; when it does not, the group is created before the first entry
\* of the stream, and the entries stay.  A call that Redis does not answer
\* changes nothing on the server: it returns the error of the Ping, or nil
\* after a failed XGROUP CREATE.
InitRedisStep ==
    (fn' # fn) =>
        /\ queue'.stream = queue.stream
        /\ fn'.out = "ping" => fn'.err = ConnectError /\ queue' = queue
        /\ fn'.out = "xgroup" => fn'.err = NoError /\ queue' = queue
        /\ fn'.out = "ok" =>
              /\ fn'.err = NoError
              /\ queue'.group
              /\ queue.group => queue' = queue /\ fn'.reply = BusyGroup
              /\ ~queue.group => queue'.last = 0 /\ PendingIds(queue') = {}

\* C38: entries appended before the group exists or before a worker has
\* started are delivered to the group: the group is created at the
\* beginning of the log, a repeated initialisation that Redis answers
\* neither fails nor resets the delivery position or the pending list, and
\* every entry of the stream is eventually delivered.
C38_EarlyEntriesDelivered ==
    /\ [][InitRedisStep]_vars
    /\ \A id \in EntryIds :
          (Len(queue.stream) >= id) ~> (queue.group /\ Delivered(queue, id))

\* C38 witness: the group was created on a stream that held an entry, that
\* entry has been delivered, and InitRedis was called again while an entry
\* was pending.
C38_Witness ==
    /\ fn.f = "InitRedis" /\ fn.pre >= 1 /\ fn.reply = BusyGroup /\ fn.pending
    /\ queue.group /\ queue.last >= 1

====
